---------------------------- MODULE Spec2Model ----------------------------
(* A model of portage-metadata: the four bracketed-expression grammars     *)
(* (LICENSE, REQUIRED_USE, RESTRICT/PROPERTIES, SRC_URI), their Display    *)
(* renderings, and the md5-cache record parser and serializer.             *)
(*                                                                         *)
(* Text is a sequence of one-character strings.  A parser of the winnow    *)
(* library is an operator of (s, i): the input and the 1-based position    *)
(* of the next unread character; it yields a PResult, whose st is "ok"     *)
(* (with the position after the match and the value), "bt" (ErrMode::      *)
(* Backtrack: the caller may try something else from where it stood) or    *)
(* "cut" (ErrMode::Cut: the whole parse fails).                            *)
EXTENDS Integers, Sequences, FiniteSets, TLC

VARIABLES
    op,       \* which entry point the caller uses
    input,    \* the text handed to it
    rec,      \* for a record, the lines the text was written from
    pc,       \* the caller's position: "start", "parsed", "rendered", "reparsed",
              \* "edited"
    res,      \* the result of parsing input
    text,     \* the rendering of res
    res2      \* the result of parsing text

vars == <<op, input, rec, pc, res, text, res2>>

-----------------------------------------------------------------------------
(* Bounds of the model. *)

\* longest REQUIRED_USE / LICENSE input, in pieces
MaxTreePieces == 5

\* longest RESTRICT / PROPERTIES input, in pieces
MaxRestrictPieces == 5

\* longest SRC_URI input, in pieces
MaxSrcUriPieces == 5

\* longest _eclasses_ value, in characters
MaxEclassLen == 5

\* most lines of a record
MaxCacheLines == 3

-----------------------------------------------------------------------------
(* Characters. *)

Lower == {"a","b","c","d","e","f","g","h","i","j","k","l","m",
          "n","o","p","q","r","s","t","u","v","w","x","y","z"}
Upper == {"A","B","C","D","E","F","G","H","I","J","K","L","M",
          "N","O","P","Q","R","S","T","U","V","W","X","Y","Z"}
Digit == {"0","1","2","3","4","5","6","7","8","9"}

LowerSeq == <<"a", "b", "c", "d", "e", "f", "g", "h", "i", "j", "k", "l", "m", "n", "o", "p", "q", "r", "s", "t", "u", "v", "w", "x", "y", "z">>
UpperSeq == <<"A", "B", "C", "D", "E", "F", "G", "H", "I", "J", "K", "L", "M", "N", "O", "P", "Q", "R", "S", "T", "U", "V", "W", "X", "Y", "Z">>

\* char::to_ascii_uppercase
to_ascii_uppercase(c) ==
    IF c \in Lower THEN UpperSeq[CHOOSE k \in 1..Len(LowerSeq) : LowerSeq[k] = c] ELSE c

\* char::is_ascii_alphanumeric
is_ascii_alphanumeric(c) == c \in Lower \cup Upper \cup Digit

\* winnow::ascii::multispace0 reads spaces, tabs, carriage returns, line feeds
MultispaceChars == {" ", "\t", "\r", "\n"}

-----------------------------------------------------------------------------
(* Results. *)

Ok(v)     == [ok |-> TRUE,  val |-> v,    err |-> "",  arg |-> <<>>]
Err(k, a) == [ok |-> FALSE, val |-> <<>>, err |-> k,   arg |-> a]
NoResult  == Err("none", <<>>)

\* equality of two results, reading val only of successes
SameResult(a, b) ==
    /\ a.ok = b.ok
    /\ a.ok => a.val = b.val
    /\ ~a.ok => (a.err = b.err /\ a.arg = b.arg)

POk(p, v) == [st |-> "ok",  pos |-> p, val |-> v]
PBt       == [st |-> "bt",  pos |-> 0, val |-> <<>>]
PCut      == [st |-> "cut", pos |-> 0, val |-> <<>>]

\* cut_err(p): a Backtrack of p becomes a Cut
cut_err(r) == IF r.st = "bt" THEN PCut ELSE r

-----------------------------------------------------------------------------
(* Sequences of characters. *)

RECURSIVE Flatten(_)
Flatten(ss) == IF ss = <<>> THEN <<>> ELSE Head(ss) \o Flatten(Tail(ss))

\* [T]::join(sep)
RECURSIVE Join(_, _)
Join(ss, sep) ==
    IF ss = <<>> THEN <<>>
    ELSE IF Len(ss) = 1 THEN ss[1]
    ELSE ss[1] \o sep \o Join(Tail(ss), sep)

SeqsUpTo(S, n) == UNION {[1..k -> S] : k \in 0..n}

\* the position after the longest run of characters of cs that starts at i
TakeWhileEnd(s, i, cs) ==
    LET stops == {j \in i..Len(s) : s[j] \notin cs}
    IN  IF stops = {} THEN Len(s) + 1
        ELSE CHOOSE j \in stops : \A k \in stops : j <= k

\* multispace0: never fails
multispace0(s, i) == TakeWhileEnd(s, i, MultispaceChars)

\* a one-character literal parser: does c stand at i
IsAt(s, i, c) == i <= Len(s) /\ s[i] = c

Slice(s, i, j) == SubSeq(s, i, j - 1)

-----------------------------------------------------------------------------
(* LICENSE: src/src/license.rs *)

\* the nodes of a LicenseExpr tree
License(name)                 == [kind |-> "License", name |-> name, flag |-> <<>>,
                                  negated |-> FALSE, entries |-> <<>>]
LicenseAnyOf(es)              == [kind |-> "AnyOf", name |-> <<>>, flag |-> <<>>,
                                  negated |-> FALSE, entries |-> es]
LicenseUseConditional(f, n, es) == [kind |-> "UseConditional", name |-> <<>>, flag |-> f,
                                  negated |-> n, entries |-> es]
LicenseAll(es)                == [kind |-> "All", name |-> <<>>, flag |-> <<>>,
                                  negated |-> FALSE, entries |-> es]

license_is_license_char(c) == is_ascii_alphanumeric(c) \/ c \in {"-", "_", ".", "+"}
license_is_flag_char(c)    == is_ascii_alphanumeric(c) \/ c \in {"_", "-", "+", "@"}

LicenseChars     == {c \in Lower \cup Upper \cup Digit \cup {"-", "_", ".", "+"} :
                        license_is_license_char(c)}
LicenseFlagChars == {c \in Lower \cup Upper \cup Digit \cup {"_", "-", "+", "@"} :
                        license_is_flag_char(c)}

\* take_while(1.., is_license_char) without the verify
license_parse_license_name_Unverified(s, i) ==
    LET j == TakeWhileEnd(s, i, LicenseChars)
    IN  IF j = i THEN PBt ELSE POk(j, License(Slice(s, i, j)))

\* take_while(1.., is_license_char).verify(!starts_with(['-', '.', '+']))
license_parse_license_name(s, i) ==
    LET j == TakeWhileEnd(s, i, LicenseChars)
    IN  IF j = i THEN PBt
        ELSE IF s[i] \in {"-", ".", "+"} THEN PBt
        ELSE POk(j, License(Slice(s, i, j)))

RECURSIVE license_parse_license_entries_from(_, _, _)
RECURSIVE license_parse_license_entry(_, _)

\* repeat(0.., preceded(multispace0, parse_license_entry)).fold(extend): a Backtrack
\* of the next entry ends the repetition where it stood before the whitespace
license_parse_license_entries_from(s, i, acc) ==
    LET fold(r) == IF r.st = "cut" THEN PCut
                   ELSE IF r.st = "bt" THEN POk(i, acc)
                   ELSE license_parse_license_entries_from(s, r.pos, acc \o r.val)
    IN  fold(license_parse_license_entry(s, multispace0(s, i)))

license_parse_license_entries(s, i) == license_parse_license_entries_from(s, i, <<>>)

\* delimited('(', parse_license_entries, (multispace0, ')'))
license_delimited_group(s, i) ==
    LET close(r, k) == IF IsAt(s, k, ")") THEN POk(k + 1, r.val) ELSE PBt
        inner(r) == IF r.st # "ok" THEN r ELSE close(r, multispace0(s, r.pos))
    IN  IF ~IsAt(s, i, "(") THEN PBt
        ELSE inner(license_parse_license_entries(s, i + 1))

\* "||", multispace0, cut_err(delimited(...)), mapped to AnyOf
license_parse_any_of(s, i) ==
    LET map(g) == IF g.st # "ok" THEN g ELSE POk(g.pos, LicenseAnyOf(g.val))
    IN  IF ~(IsAt(s, i, "|") /\ IsAt(s, i + 1, "|")) THEN PBt
        ELSE map(cut_err(license_delimited_group(s, multispace0(s, i + 2))))

\* opt('!'), take_while(1.., is_flag_char), '?', multispace0, cut_err(delimited(...))
license_parse_use_conditional(s, i) ==
    LET map(negated, f0, f1, g) ==
            IF g.st # "ok" THEN g
            ELSE POk(g.pos, LicenseUseConditional(Slice(s, f0, f1), negated, g.val))
        group(negated, f0, f1) ==
            IF f1 = f0 THEN PBt
            ELSE IF ~IsAt(s, f1, "?") THEN PBt
            ELSE map(negated, f0, f1,
                     cut_err(license_delimited_group(s, multispace0(s, f1 + 1))))
        flag(negated, f0) == group(negated, f0, TakeWhileEnd(s, f0, LicenseFlagChars))
    IN  IF IsAt(s, i, "!") THEN flag(TRUE, i + 1) ELSE flag(FALSE, i)

\* delimited('(', parse_license_entries, cut_err((multispace0, ')'))): the children
\* are returned as they are, to be appended to the enclosing list
license_parse_paren_group(s, i) ==
    LET close(r, k) == IF IsAt(s, k, ")") THEN POk(k + 1, r.val) ELSE PCut
        inner(r) == IF r.st # "ok" THEN r ELSE close(r, multispace0(s, r.pos))
    IN  IF ~IsAt(s, i, "(") THEN PBt
        ELSE inner(license_parse_license_entries(s, i + 1))

\* dispatch on peek(any); every branch yields a list of entries
license_parse_license_entry(s, i) ==
    LET one(r) == IF r.st # "ok" THEN r ELSE POk(r.pos, <<r.val>>)
        alt(u) == IF u.st = "bt" THEN one(license_parse_license_name(s, i)) ELSE one(u)
    IN  IF i > Len(s) THEN PBt
        ELSE IF s[i] = "|" THEN one(license_parse_any_of(s, i))
        ELSE IF s[i] = "(" THEN license_parse_paren_group(s, i)
        ELSE alt(license_parse_use_conditional(s, i))

\* parse_license_entries, then multispace0
parse_license_string(s, i) ==
    LET rest(r) == IF r.st # "ok" THEN r ELSE POk(multispace0(s, r.pos), r.val)
    IN  rest(license_parse_license_entries(s, i))

\* the entries always wrapped in All, a single one too
LicenseExpr_parse_AlwaysAll(s) ==
    LET wrap(r) == IF r.st # "ok" \/ r.pos # Len(s) + 1 THEN Err("InvalidLicense", <<>>)
                   ELSE Ok(LicenseAll(r.val))
    IN  wrap(parse_license_string(s, 1))

\* Parser::parse: the parser must succeed and leave nothing unread
LicenseExpr_parse(s) ==
    LET wrap(r) == IF r.st # "ok" \/ r.pos # Len(s) + 1 THEN Err("InvalidLicense", <<>>)
                   ELSE IF Len(r.val) = 0 THEN Ok(LicenseAll(<<>>))
                   ELSE IF Len(r.val) = 1 THEN Ok(r.val[1])
                   ELSE Ok(LicenseAll(r.val))
    IN  wrap(parse_license_string(s, 1))

RECURSIVE LicenseExpr_fmt(_)

\* the rendering without the "!" of a negated conditional
LicenseExpr_fmt_NoNegation(e) ==
    LET inner == Join([k \in 1..Len(e.entries) |-> LicenseExpr_fmt(e.entries[k])], <<" ">>)
    IN  IF e.kind = "License" THEN e.name
        ELSE IF e.kind = "AnyOf" THEN <<"|", "|", " ", "(", " ">> \o inner \o <<" ", ")">>
        ELSE IF e.kind = "UseConditional" THEN
            e.flag \o <<"?", " ", "(", " ">> \o inner \o <<" ", ")">>
        ELSE inner

\* impl Display for LicenseExpr
LicenseExpr_fmt(e) ==
    LET inner == Join([k \in 1..Len(e.entries) |-> LicenseExpr_fmt(e.entries[k])], <<" ">>)
    IN  IF e.kind = "License" THEN e.name
        ELSE IF e.kind = "AnyOf" THEN <<"|", "|", " ", "(", " ">> \o inner \o <<" ", ")">>
        ELSE IF e.kind = "UseConditional" THEN
            (IF e.negated THEN <<"!">> ELSE <<>>) \o e.flag
                \o <<"?", " ", "(", " ">> \o inner \o <<" ", ")">>
        ELSE inner

-----------------------------------------------------------------------------
(* REQUIRED_USE: src/src/required_use.rs *)

\* the nodes of a RequiredUseExpr tree
RequiredUseFlag(name, n)  == [kind |-> "Flag", name |-> name, flag |-> <<>>,
                              negated |-> n, entries |-> <<>>]
RequiredUseAnyOf(es)      == [kind |-> "AnyOf", name |-> <<>>, flag |-> <<>>,
                              negated |-> FALSE, entries |-> es]
RequiredUseExactlyOne(es) == [kind |-> "ExactlyOne", name |-> <<>>, flag |-> <<>>,
                              negated |-> FALSE, entries |-> es]
RequiredUseAtMostOne(es)  == [kind |-> "AtMostOne", name |-> <<>>, flag |-> <<>>,
                              negated |-> FALSE, entries |-> es]
RequiredUseUseConditional(f, n, es) == [kind |-> "UseConditional", name |-> <<>>,
                              flag |-> f, negated |-> n, entries |-> es]
RequiredUseAll(es)        == [kind |-> "All", name |-> <<>>, flag |-> <<>>,
                              negated |-> FALSE, entries |-> es]

required_use_is_flag_char(c) == is_ascii_alphanumeric(c) \/ c \in {"_", "-", "+"}

RequiredUseFlagChars == {c \in Lower \cup Upper \cup Digit \cup {"_", "-", "+"} :
                            required_use_is_flag_char(c)}

RECURSIVE required_use_parse_entries_from(_, _, _)
RECURSIVE required_use_parse_required_use_entry(_, _)

\* repeat(0.., preceded(multispace0, parse_required_use_entry)).fold(extend)
required_use_parse_entries_from(s, i, acc) ==
    LET fold(r) == IF r.st = "cut" THEN PCut
                   ELSE IF r.st = "bt" THEN POk(i, acc)
                   ELSE required_use_parse_entries_from(s, r.pos, acc \o r.val)
    IN  fold(required_use_parse_required_use_entry(s, multispace0(s, i)))

parse_required_use_entries(s, i) == required_use_parse_entries_from(s, i, <<>>)

\* delimited('(', parse_required_use_entries, (multispace0, ')'))
required_use_delimited_group(s, i) ==
    LET close(r, k) == IF IsAt(s, k, ")") THEN POk(k + 1, r.val) ELSE PBt
        inner(r) == IF r.st # "ok" THEN r ELSE close(r, multispace0(s, r.pos))
    IN  IF ~IsAt(s, i, "(") THEN PBt
        ELSE inner(parse_required_use_entries(s, i + 1))

\* the operator read with multispace1: whitespace is needed before the group
required_use_parse_operator_group_Spaced(s, i, c) ==
    IF ~(IsAt(s, i, c) /\ IsAt(s, i + 1, c)) THEN PBt
    ELSE IF multispace0(s, i + 2) = i + 2 THEN PBt
    ELSE cut_err(required_use_delimited_group(s, multispace0(s, i + 2)))

\* the two-character operator c c, multispace0, cut_err(delimited(...))
required_use_parse_operator_group(s, i, c) ==
    IF ~(IsAt(s, i, c) /\ IsAt(s, i + 1, c)) THEN PBt
    ELSE cut_err(required_use_delimited_group(s, multispace0(s, i + 2)))

required_use_parse_any_of(s, i) ==
    LET map(g) == IF g.st # "ok" THEN g ELSE POk(g.pos, RequiredUseAnyOf(g.val))
    IN  map(required_use_parse_operator_group(s, i, "|"))

required_use_parse_exactly_one(s, i) ==
    LET map(g) == IF g.st # "ok" THEN g ELSE POk(g.pos, RequiredUseExactlyOne(g.val))
    IN  map(required_use_parse_operator_group(s, i, "^"))

required_use_parse_at_most_one(s, i) ==
    LET map(g) == IF g.st # "ok" THEN g ELSE POk(g.pos, RequiredUseAtMostOne(g.val))
    IN  map(required_use_parse_operator_group(s, i, "?"))

\* opt('!'), take_while(1.., is_flag_char), '?', multispace0, cut_err(delimited(...))
required_use_parse_use_conditional(s, i) ==
    LET map(negated, f0, f1, g) ==
            IF g.st # "ok" THEN g
            ELSE POk(g.pos, RequiredUseUseConditional(Slice(s, f0, f1), negated, g.val))
        group(negated, f0, f1) ==
            IF f1 = f0 THEN PBt
            ELSE IF ~IsAt(s, f1, "?") THEN PBt
            ELSE map(negated, f0, f1,
                     cut_err(required_use_delimited_group(s, multispace0(s, f1 + 1))))
        flag(negated, f0) == group(negated, f0, TakeWhileEnd(s, f0, RequiredUseFlagChars))
    IN  IF IsAt(s, i, "!") THEN flag(TRUE, i + 1) ELSE flag(FALSE, i)

\* (opt('!'), take_while(1.., is_flag_char))
required_use_parse_flag(s, i) ==
    LET name(negated, f0, f1) ==
            IF f1 = f0 THEN PBt ELSE POk(f1, RequiredUseFlag(Slice(s, f0, f1), negated))
        flag(negated, f0) == name(negated, f0, TakeWhileEnd(s, f0, RequiredUseFlagChars))
    IN  IF IsAt(s, i, "!") THEN flag(TRUE, i + 1) ELSE flag(FALSE, i)

\* delimited('(', parse_required_use_entries, cut_err((multispace0, ')')))
required_use_parse_paren_group(s, i) ==
    LET close(r, k) == IF IsAt(s, k, ")") THEN POk(k + 1, r.val) ELSE PCut
        inner(r) == IF r.st # "ok" THEN r ELSE close(r, multispace0(s, r.pos))
    IN  IF ~IsAt(s, i, "(") THEN PBt
        ELSE inner(parse_required_use_entries(s, i + 1))

\* the entry as a one-element list
AsList(r) == IF r.st # "ok" THEN r ELSE POk(r.pos, <<r.val>>)

\* dispatch on peek(any)
required_use_parse_required_use_entry(s, i) ==
    LET alt(u) == IF u.st # "bt" THEN AsList(u)
                  ELSE AsList(required_use_parse_flag(s, i))
    IN  IF i > Len(s) THEN PBt
        ELSE IF s[i] = "|" THEN AsList(required_use_parse_any_of(s, i))
        ELSE IF s[i] = "^" THEN AsList(required_use_parse_exactly_one(s, i))
        ELSE IF s[i] = "(" THEN required_use_parse_paren_group(s, i)
        ELSE IF s[i] = "?" THEN AsList(required_use_parse_at_most_one(s, i))
        ELSE alt(required_use_parse_use_conditional(s, i))

\* parse_required_use_entries, then multispace0
parse_required_use_string(s, i) ==
    LET rest(r) == IF r.st # "ok" THEN r ELSE POk(multispace0(s, r.pos), r.val)
    IN  rest(parse_required_use_entries(s, i))

RequiredUseExpr_parse(s) ==
    LET wrap(r) == IF r.st # "ok" \/ r.pos # Len(s) + 1
                       THEN Err("InvalidRequiredUse", <<>>)
                   ELSE IF Len(r.val) = 0 THEN Ok(RequiredUseAll(<<>>))
                   ELSE IF Len(r.val) = 1 THEN Ok(r.val[1])
                   ELSE Ok(RequiredUseAll(r.val))
    IN  wrap(parse_required_use_string(s, 1))

\* impl Display for RequiredUseExpr, with fmt_entries
RECURSIVE RequiredUseExpr_fmt(_)
RequiredUseExpr_fmt(e) ==
    LET fmt_entries ==
            Join([k \in 1..Len(e.entries) |-> RequiredUseExpr_fmt(e.entries[k])], <<" ">>)
        group(opr) == opr \o <<" ", "(", " ">> \o fmt_entries \o <<" ", ")">>
    IN  IF e.kind = "Flag" THEN (IF e.negated THEN <<"!">> ELSE <<>>) \o e.name
        ELSE IF e.kind = "AnyOf" THEN group(<<"|", "|">>)
        ELSE IF e.kind = "ExactlyOne" THEN group(<<"^", "^">>)
        ELSE IF e.kind = "AtMostOne" THEN group(<<"?", "?">>)
        ELSE IF e.kind = "UseConditional" THEN
            group((IF e.negated THEN <<"!">> ELSE <<>>) \o e.flag \o <<"?">>)
        ELSE fmt_entries

-----------------------------------------------------------------------------
(* RESTRICT and PROPERTIES: src/src/restrict.rs *)

\* the nodes of a RestrictExpr
RestrictToken(tok) == [kind |-> "Token", name |-> tok, flag |-> <<>>,
                       negated |-> FALSE, entries |-> <<>>]
RestrictUseConditional(f, n, es) == [kind |-> "UseConditional", name |-> <<>>,
                       flag |-> f, negated |-> n, entries |-> es]

restrict_is_token_char(c) == is_ascii_alphanumeric(c) \/ c \in {"-", "_", ".", "+"}
restrict_is_flag_char(c)  == is_ascii_alphanumeric(c) \/ c \in {"_", "-", "+"}

RestrictTokenChars == {c \in Lower \cup Upper \cup Digit \cup {"-", "_", ".", "+"} :
                          restrict_is_token_char(c)}
RestrictFlagChars  == {c \in Lower \cup Upper \cup Digit \cup {"_", "-", "+"} :
                          restrict_is_flag_char(c)}

\* take_while(1.., is_token_char)
restrict_parse_token(s, i) ==
    LET j == TakeWhileEnd(s, i, RestrictTokenChars)
    IN  IF j = i THEN PBt ELSE POk(j, RestrictToken(Slice(s, i, j)))

RECURSIVE restrict_parse_entries_from(_, _, _)
RECURSIVE restrict_parse_restrict_entry(_, _)

\* repeat(0.., preceded(multispace0, parse_restrict_entry))
restrict_parse_entries_from(s, i, acc) ==
    LET fold(r) == IF r.st = "cut" THEN PCut
                   ELSE IF r.st = "bt" THEN POk(i, acc)
                   ELSE restrict_parse_entries_from(s, r.pos, Append(acc, r.val))
    IN  fold(restrict_parse_restrict_entry(s, multispace0(s, i)))

parse_restrict_entries(s, i) == restrict_parse_entries_from(s, i, <<>>)

\* delimited('(', parse_restrict_entries, (multispace0, ')'))
restrict_delimited_group(s, i) ==
    LET close(r, k) == IF IsAt(s, k, ")") THEN POk(k + 1, r.val) ELSE PBt
        inner(r) == IF r.st # "ok" THEN r ELSE close(r, multispace0(s, r.pos))
    IN  IF ~IsAt(s, i, "(") THEN PBt
        ELSE inner(parse_restrict_entries(s, i + 1))

restrict_parse_use_conditional(s, i) ==
    LET map(negated, f0, f1, g) ==
            IF g.st # "ok" THEN g
            ELSE POk(g.pos, RestrictUseConditional(Slice(s, f0, f1), negated, g.val))
        group(negated, f0, f1) ==
            IF f1 = f0 THEN PBt
            ELSE IF ~IsAt(s, f1, "?") THEN PBt
            ELSE map(negated, f0, f1,
                     cut_err(restrict_delimited_group(s, multispace0(s, f1 + 1))))
        flag(negated, f0) == group(negated, f0, TakeWhileEnd(s, f0, RestrictFlagChars))
    IN  IF IsAt(s, i, "!") THEN flag(TRUE, i + 1) ELSE flag(FALSE, i)

\* a bare parenthesized group replaced by its first child, if it has one
restrict_collapse_group_First(entries) ==
    IF Len(entries) >= 1 THEN entries[1] ELSE RestrictToken(<<>>)

\* what a bare parenthesized group becomes: its only child, or Token("")
restrict_collapse_group(entries) ==
    IF Len(entries) = 1 THEN entries[1] ELSE RestrictToken(<<>>)

\* dispatch on peek(any): '(' is a bare group, anything else a USE-conditional
\* or a token
restrict_parse_restrict_entry(s, i) ==
    LET map(g) == IF g.st # "ok" THEN g ELSE POk(g.pos, restrict_collapse_group(g.val))
        alt(u) == IF u.st # "bt" THEN u ELSE restrict_parse_token(s, i)
    IN  IF i > Len(s) THEN PBt
        ELSE IF s[i] = "(" THEN map(cut_err(restrict_delimited_group(s, i)))
        ELSE alt(restrict_parse_use_conditional(s, i))

parse_restrict_string(s, i) ==
    LET rest(r) == IF r.st # "ok" THEN r ELSE POk(multispace0(s, r.pos), r.val)
    IN  rest(parse_restrict_entries(s, i))

\* the parser run without the check that nothing is left unread
RestrictExpr_parse_Prefix(s) ==
    LET wrap(r) == IF r.st # "ok" THEN Err("InvalidRestrict", <<>>) ELSE Ok(r.val)
    IN  wrap(parse_restrict_string(s, 1))

\* Parser::parse: the parser must succeed and leave nothing unread
RestrictExpr_parse(s) ==
    LET wrap(r) == IF r.st # "ok" \/ r.pos # Len(s) + 1 THEN Err("InvalidRestrict", <<>>)
                   ELSE Ok(r.val)
    IN  wrap(parse_restrict_string(s, 1))

\* impl Display for RestrictExpr
RECURSIVE RestrictExpr_fmt(_)
RestrictExpr_fmt(e) ==
    IF e.kind = "Token" THEN e.name
    ELSE (IF e.negated THEN <<"!">> ELSE <<>>) \o e.flag \o <<"?", " ", "(", " ">>
            \o Join([k \in 1..Len(e.entries) |-> RestrictExpr_fmt(e.entries[k])], <<" ">>)
            \o <<" ", ")">>

RECURSIVE RestrictExpr_flat_tokens(_)
\* the tokens of the top level only, the children of USE conditionals left out
RestrictExpr_flat_tokens_Shallow(entries) ==
    IF entries = <<>> THEN <<>>
    ELSE (IF Head(entries).kind = "Token" THEN <<Head(entries).name>> ELSE <<>>)
         \o RestrictExpr_flat_tokens(Tail(entries))

\* RestrictExpr::flat_tokens: a Token is pushed, a UseConditional extends the
\* list with the flat tokens of its entries
RestrictExpr_flat_tokens(entries) ==
    IF entries = <<>> THEN <<>>
    ELSE (IF Head(entries).kind = "Token" THEN <<Head(entries).name>>
          ELSE RestrictExpr_flat_tokens(Head(entries).entries))
         \o RestrictExpr_flat_tokens(Tail(entries))

\* entries.iter().map(|e| e.to_string()).collect::<Vec<_>>().join(" ")
RestrictExpr_join(es) == Join([k \in 1..Len(es) |-> RestrictExpr_fmt(es[k])], <<" ">>)

-----------------------------------------------------------------------------
(* SRC_URI: src/src/src_uri.rs *)

None    == <<>>
Some(x) == <<x>>

Fetch  == <<"f", "e", "t", "c", "h">>
Mirror == <<"m", "i", "r", "r", "o", "r">>

\* the nodes of a SrcUriEntry; file is the filename of a Uri, the target of a Renamed
SrcUriUri(url, filename, restriction) ==
    [kind |-> "Uri", url |-> url, file |-> filename, restriction |-> restriction,
     flag |-> <<>>, negated |-> FALSE, entries |-> <<>>]
SrcUriRenamed(url, target, restriction) ==
    [kind |-> "Renamed", url |-> url, file |-> target, restriction |-> restriction,
     flag |-> <<>>, negated |-> FALSE, entries |-> <<>>]
SrcUriUseConditional(f, n, es) ==
    [kind |-> "UseConditional", url |-> <<>>, file |-> <<>>, restriction |-> None,
     flag |-> f, negated |-> n, entries |-> es]
SrcUriGroup(es) ==
    [kind |-> "Group", url |-> <<>>, file |-> <<>>, restriction |-> None,
     flag |-> <<>>, negated |-> FALSE, entries |-> es]

UriPunct == {":", "/", ".", "-", "_", "~", "$", "&", "'", "*", "+", ",", ";", "=",
             "%", "@", "#", "?"}

src_uri_is_uri_char(c)      == is_ascii_alphanumeric(c) \/ c \in UriPunct
src_uri_is_filename_char(c) == is_ascii_alphanumeric(c) \/ c \in {".", "-", "_", "+"}
src_uri_is_flag_char(c)     == is_ascii_alphanumeric(c) \/ c \in {"_", "-", "+"}

UriChars        == {c \in Lower \cup Upper \cup Digit \cup UriPunct : src_uri_is_uri_char(c)}
FilenameChars   == {c \in Lower \cup Upper \cup Digit \cup {".", "-", "_", "+"} :
                       src_uri_is_filename_char(c)}
SrcUriFlagChars == {c \in Lower \cup Upper \cup Digit \cup {"_", "-", "+"} :
                       src_uri_is_flag_char(c)}

\* the position after the last occurrence of c in s, 1 when there is none
AfterLast(s, c) ==
    LET at == {j \in 1..Len(s) : s[j] = c}
    IN  IF at = {} THEN 1 ELSE 1 + CHOOSE j \in at : \A k \in at : k <= j

\* the position of the first occurrence of c in s at or after i, Len(s) + 1 when none
FirstAt(s, i, c) ==
    LET at == {j \in i..Len(s) : s[j] = c}
    IN  IF at = {} THEN Len(s) + 1 ELSE CHOOSE j \in at : \A k \in at : j <= k

\* the text after the last '/', its query kept
filename_from_url_WithQuery(url) == SubSeq(url, AfterLast(url, "/"), Len(url))

\* url.rsplit('/').next().unwrap_or(url).split('?').next().unwrap_or(url)
filename_from_url(url) ==
    LET first(last) == SubSeq(last, 1, FirstAt(last, 1, "?") - 1)
    IN  first(SubSeq(url, AfterLast(url, "/"), Len(url)))

\* does the literal lit stand at i
LitAt(s, i, lit) ==
    /\ i + Len(lit) - 1 <= Len(s)
    /\ \A k \in 1..Len(lit) : s[i + k - 1] = lit[k]

\* opt("fetch+"): mirror+ is not known as a marker
parse_restriction_prefix_FetchOnly(s, i) ==
    IF LitAt(s, i, Fetch \o <<"+">>) THEN POk(i + Len(Fetch) + 1, Some(Fetch))
    ELSE POk(i, None)

\* opt(alt(("fetch+", "mirror+"))): the marker and the position after it
parse_restriction_prefix(s, i) ==
    IF LitAt(s, i, Fetch \o <<"+">>) THEN POk(i + Len(Fetch) + 1, Some(Fetch))
    ELSE IF LitAt(s, i, Mirror \o <<"+">>) THEN POk(i + Len(Mirror) + 1, Some(Mirror))
    ELSE POk(i, None)

\* opt(preceded((multispace0, "->", multispace0), parse_filename()))
src_uri_parse_rename(s, i) ==
    LET name(f0, f1) == IF f1 > f0 THEN POk(f1, Some(Slice(s, f0, f1))) ELSE POk(i, None)
        file(f0) == name(f0, TakeWhileEnd(s, f0, FilenameChars))
        arrow(a) == IF LitAt(s, a, <<"-", ">">>) THEN file(multispace0(s, a + 2))
                    ELSE POk(i, None)
    IN  arrow(multispace0(s, i))

\* (parse_restriction_prefix(), parse_uri(), opt(... "->" ... parse_filename()))
parse_uri_entry(s, i) ==
    LET map(restriction, url, rn) ==
            IF rn.val # None THEN POk(rn.pos, SrcUriRenamed(url, rn.val[1], restriction))
            ELSE POk(rn.pos, SrcUriUri(url, filename_from_url(url), restriction))
        uri(p, u1) == IF u1 = p.pos THEN PBt
                      ELSE map(p.val, Slice(s, p.pos, u1), src_uri_parse_rename(s, u1))
        prefix(p) == uri(p, TakeWhileEnd(s, p.pos, UriChars))
    IN  prefix(parse_restriction_prefix(s, i))

RECURSIVE src_uri_parse_entries_from(_, _, _)
RECURSIVE parse_src_uri_entry(_, _)

\* repeat(0.., preceded(multispace0, parse_src_uri_entry))
src_uri_parse_entries_from(s, i, acc) ==
    LET fold(r) == IF r.st = "cut" THEN PCut
                   ELSE IF r.st = "bt" THEN POk(i, acc)
                   ELSE src_uri_parse_entries_from(s, r.pos, Append(acc, r.val))
    IN  fold(parse_src_uri_entry(s, multispace0(s, i)))

parse_src_uri_entries(s, i) == src_uri_parse_entries_from(s, i, <<>>)

\* delimited('(', parse_src_uri_entries, (multispace0, ')'))
src_uri_delimited_group(s, i) ==
    LET close(r, k) == IF IsAt(s, k, ")") THEN POk(k + 1, r.val) ELSE PBt
        inner(r) == IF r.st # "ok" THEN r ELSE close(r, multispace0(s, r.pos))
    IN  IF ~IsAt(s, i, "(") THEN PBt
        ELSE inner(parse_src_uri_entries(s, i + 1))

\* the group of a USE conditional read without cut_err
src_uri_parse_use_conditional_Uncommitted(s, i) ==
    LET map(negated, f0, f1, g) ==
            IF g.st # "ok" THEN g
            ELSE POk(g.pos, SrcUriUseConditional(Slice(s, f0, f1), negated, g.val))
        group(negated, f0, f1) ==
            IF f1 = f0 THEN PBt
            ELSE IF ~IsAt(s, f1, "?") THEN PBt
            ELSE map(negated, f0, f1, src_uri_delimited_group(s, multispace0(s, f1 + 1)))
        flag(negated, f0) == group(negated, f0, TakeWhileEnd(s, f0, SrcUriFlagChars))
    IN  IF IsAt(s, i, "!") THEN flag(TRUE, i + 1) ELSE flag(FALSE, i)

\* parse_use_conditional: once [!]flag? is read, the group is under cut_err
src_uri_parse_use_conditional(s, i) ==
    LET map(negated, f0, f1, g) ==
            IF g.st # "ok" THEN g
            ELSE POk(g.pos, SrcUriUseConditional(Slice(s, f0, f1), negated, g.val))
        group(negated, f0, f1) ==
            IF f1 = f0 THEN PBt
            ELSE IF ~IsAt(s, f1, "?") THEN PBt
            ELSE map(negated, f0, f1,
                     cut_err(src_uri_delimited_group(s, multispace0(s, f1 + 1))))
        flag(negated, f0) == group(negated, f0, TakeWhileEnd(s, f0, SrcUriFlagChars))
    IN  IF IsAt(s, i, "!") THEN flag(TRUE, i + 1) ELSE flag(FALSE, i)

\* the group read as in RESTRICT: an empty placeholder in place of the Group node
src_uri_parse_group_Collapsed(s, i) ==
    LET close(r, k) == IF IsAt(s, k, ")") THEN POk(k + 1, SrcUriUri(<<>>, <<>>, None))
                       ELSE PCut
        inner(r) == IF r.st # "ok" THEN r ELSE close(r, multispace0(s, r.pos))
    IN  IF ~IsAt(s, i, "(") THEN PBt
        ELSE inner(parse_src_uri_entries(s, i + 1))

\* delimited('(', parse_src_uri_entries, cut_err((multispace0, ')'))) as a Group
src_uri_parse_group(s, i) ==
    LET close(r, k) == IF IsAt(s, k, ")") THEN POk(k + 1, SrcUriGroup(r.val)) ELSE PCut
        inner(r) == IF r.st # "ok" THEN r ELSE close(r, multispace0(s, r.pos))
    IN  IF ~IsAt(s, i, "(") THEN PBt
        ELSE inner(parse_src_uri_entries(s, i + 1))

\* dispatch on peek(any)
parse_src_uri_entry(s, i) ==
    LET alt(u) == IF u.st # "bt" THEN u ELSE parse_uri_entry(s, i)
    IN  IF i > Len(s) THEN PBt
        ELSE IF s[i] = "(" THEN src_uri_parse_group(s, i)
        ELSE alt(src_uri_parse_use_conditional(s, i))

parse_src_uri_string(s, i) ==
    LET rest(r) == IF r.st # "ok" THEN r ELSE POk(multispace0(s, r.pos), r.val)
    IN  rest(parse_src_uri_entries(s, i))

SrcUriEntry_parse(s) ==
    LET wrap(r) == IF r.st # "ok" \/ r.pos # Len(s) + 1 THEN Err("InvalidSrcUri", <<>>)
                   ELSE Ok(r.val)
    IN  wrap(parse_src_uri_string(s, 1))

RECURSIVE SrcUriEntry_fmt(_)

\* the rendering without the restriction marker of a renamed URI
SrcUriEntry_fmt_NoRestriction(e) ==
    LET prefix == IF e.restriction = None THEN <<>> ELSE e.restriction[1] \o <<"+">>
        inner == Join([k \in 1..Len(e.entries) |-> SrcUriEntry_fmt(e.entries[k])], <<" ">>)
    IN  IF e.kind = "Uri" THEN prefix \o e.url
        ELSE IF e.kind = "Renamed" THEN e.url \o <<" ", "-", ">", " ">> \o e.file
        ELSE IF e.kind = "UseConditional" THEN
            (IF e.negated THEN <<"!">> ELSE <<>>) \o e.flag \o <<"?", " ", "(", " ">>
                \o inner \o <<" ", ")">>
        ELSE <<"(", " ">> \o inner \o <<" ", ")">>

\* impl Display for SrcUriEntry
SrcUriEntry_fmt(e) ==
    LET prefix == IF e.restriction = None THEN <<>> ELSE e.restriction[1] \o <<"+">>
        inner == Join([k \in 1..Len(e.entries) |-> SrcUriEntry_fmt(e.entries[k])], <<" ">>)
    IN  IF e.kind = "Uri" THEN prefix \o e.url
        ELSE IF e.kind = "Renamed" THEN prefix \o e.url \o <<" ", "-", ">", " ">> \o e.file
        ELSE IF e.kind = "UseConditional" THEN
            (IF e.negated THEN <<"!">> ELSE <<>>) \o e.flag \o <<"?", " ", "(", " ">>
                \o inner \o <<" ", ")">>
        ELSE <<"(", " ">> \o inner \o <<" ", ")">>

SrcUriEntry_join(es) == Join([k \in 1..Len(es) |-> SrcUriEntry_fmt(es[k])], <<" ">>)

-----------------------------------------------------------------------------
(* Strings: the std operations the record parser uses. *)

\* char::is_whitespace on ASCII text: U+0009 to U+000D and the space. TLA+ has
\* no escape for U+000B, which stands here as the character itself. The
\* White_Space characters beyond ASCII (U+0085, U+00A0, U+1680, U+2000 to
\* U+200A, U+2028, U+2029, U+202F, U+205F, U+3000) are not text of the model.
WhitespaceChars == {" ", "\t", "\n", "\r", "\f", ""}

\* str::trim
Trim(s) ==
    LET keep == {j \in 1..Len(s) : s[j] \notin WhitespaceChars}
    IN  IF keep = {} THEN <<>>
        ELSE SubSeq(s, CHOOSE j \in keep : \A k \in keep : j <= k,
                       CHOOSE j \in keep : \A k \in keep : k <= j)

\* str::split(c): the pieces between the occurrences of c, empty ones included
RECURSIVE SplitFrom(_, _, _)
SplitFrom(s, i, c) ==
    LET j == FirstAt(s, i, c)
    IN  IF j > Len(s) THEN <<Slice(s, i, j)>>
        ELSE <<Slice(s, i, j)>> \o SplitFrom(s, j + 1, c)

Split(s, c) == SplitFrom(s, 1, c)

\* str::split_whitespace: the maximal runs of non-whitespace characters
RECURSIVE SplitWhitespaceFrom(_, _)
SplitWhitespaceFrom(s, i) ==
    LET a == TakeWhileEnd(s, i, WhitespaceChars)
        stops == {j \in a..Len(s) : s[j] \in WhitespaceChars}
        b == IF stops = {} THEN Len(s) + 1 ELSE CHOOSE j \in stops : \A k \in stops : j <= k
    IN  IF a > Len(s) THEN <<>>
        ELSE <<Slice(s, a, b)>> \o SplitWhitespaceFrom(s, b)

split_whitespace(s) == SplitWhitespaceFrom(s, 1)

\* str::lines: split at "\n", the final line ending optional, a "\r" before
\* "\n" dropped; a "\r" at the end of a last line without "\n" stays
str_lines(s) ==
    LET raw == Split(s, "\n")
        cut == IF raw[Len(raw)] = <<>> THEN SubSeq(raw, 1, Len(raw) - 1) ELSE raw
    IN  [k \in 1..Len(cut) |->
            IF k < Len(raw) /\ cut[k] # <<>> /\ cut[k][Len(cut[k])] = "\r"
            THEN SubSeq(cut[k], 1, Len(cut[k]) - 1) ELSE cut[k]]

\* the first result of rs that is an error, or Ok of all the values
RECURSIVE CollectFrom(_, _, _)
CollectFrom(rs, k, acc) ==
    IF k > Len(rs) THEN Ok(acc)
    ELSE IF ~rs[k].ok THEN rs[k]
    ELSE CollectFrom(rs, k + 1, Append(acc, rs[k].val))

\* Iterator::collect::<Result<Vec<_>>>
Collect(rs) == CollectFrom(rs, 1, <<>>)

-----------------------------------------------------------------------------
(* EAPI: src/src/eapi.rs.  An Eapi is its number, Zero = 0 .. Nine = 9. *)

EapiZero == 0

DigitValue == [c \in Digit |->
    IF c = "0" THEN 0 ELSE IF c = "1" THEN 1 ELSE IF c = "2" THEN 2
    ELSE IF c = "3" THEN 3 ELSE IF c = "4" THEN 4 ELSE IF c = "5" THEN 5
    ELSE IF c = "6" THEN 6 ELSE IF c = "7" THEN 7 ELSE IF c = "8" THEN 8 ELSE 9]

\* the lookup with the empty string taken for the default version
Eapi_from_str_EmptyIsZero(s) ==
    IF s = <<>> THEN Ok(EapiZero)
    ELSE IF Len(s) = 1 /\ s[1] \in Digit THEN Ok(DigitValue[s[1]])
    ELSE Err("InvalidEapi", s)

\* impl FromStr for Eapi
Eapi_from_str(s) ==
    IF Len(s) = 1 /\ s[1] \in Digit THEN Ok(DigitValue[s[1]])
    ELSE Err("InvalidEapi", s)

\* the version written with a leading letter, which from_str refuses
Eapi_fmt_Named(e) == <<"v">> \o <<CHOOSE c \in Digit : DigitValue[c] = e>>

\* impl Display for Eapi
Eapi_fmt(e) == <<CHOOSE c \in Digit : DigitValue[c] = e>>

has_bdepend(e)                    == e >= 7
has_idepend(e)                    == e >= 8
has_required_use(e)               == e >= 4
has_at_most_one_of(e)             == e >= 5
has_src_prepare(e)                == e >= 2
has_pkg_pretend(e)                == e >= 4
has_src_uri_arrows(e)             == e >= 2
has_slot_operators(e)             == e >= 5
has_properties(e)                 == e >= 3
has_use_conditional_restrict(e)   == e >= 8
has_selective_uri_restrictions(e) == e >= 8

-----------------------------------------------------------------------------
(* DEFINED_PHASES: src/src/phase.rs.  A Phase is the name of its variant. *)

\* impl FromStr for Phase
Phase_from_str(s) ==
    IF s \in {<<"p", "r", "e", "t", "e", "n", "d">>, <<"p", "k", "g", "_", "p", "r", "e", "t", "e", "n", "d">>} THEN Ok("PkgPretend")
    ELSE IF s \in {<<"s", "e", "t", "u", "p">>, <<"p", "k", "g", "_", "s", "e", "t", "u", "p">>} THEN Ok("PkgSetup")
    ELSE IF s \in {<<"u", "n", "p", "a", "c", "k">>, <<"s", "r", "c", "_", "u", "n", "p", "a", "c", "k">>} THEN Ok("SrcUnpack")
    ELSE IF s \in {<<"p", "r", "e", "p", "a", "r", "e">>, <<"s", "r", "c", "_", "p", "r", "e", "p", "a", "r", "e">>} THEN Ok("SrcPrepare")
    ELSE IF s \in {<<"c", "o", "n", "f", "i", "g", "u", "r", "e">>, <<"s", "r", "c", "_", "c", "o", "n", "f", "i", "g", "u", "r", "e">>} THEN Ok("SrcConfigure")
    ELSE IF s \in {<<"c", "o", "m", "p", "i", "l", "e">>, <<"s", "r", "c", "_", "c", "o", "m", "p", "i", "l", "e">>} THEN Ok("SrcCompile")
    ELSE IF s \in {<<"t", "e", "s", "t">>, <<"s", "r", "c", "_", "t", "e", "s", "t">>} THEN Ok("SrcTest")
    ELSE IF s \in {<<"i", "n", "s", "t", "a", "l", "l">>, <<"s", "r", "c", "_", "i", "n", "s", "t", "a", "l", "l">>} THEN Ok("SrcInstall")
    ELSE IF s \in {<<"p", "r", "e", "i", "n", "s", "t">>, <<"p", "k", "g", "_", "p", "r", "e", "i", "n", "s", "t">>} THEN Ok("PkgPreinst")
    ELSE IF s \in {<<"p", "o", "s", "t", "i", "n", "s", "t">>, <<"p", "k", "g", "_", "p", "o", "s", "t", "i", "n", "s", "t">>} THEN Ok("PkgPostinst")
    ELSE IF s \in {<<"p", "r", "e", "r", "m">>, <<"p", "k", "g", "_", "p", "r", "e", "r", "m">>} THEN Ok("PkgPrerm")
    ELSE IF s \in {<<"p", "o", "s", "t", "r", "m">>, <<"p", "k", "g", "_", "p", "o", "s", "t", "r", "m">>} THEN Ok("PkgPostrm")
    ELSE IF s \in {<<"c", "o", "n", "f", "i", "g">>, <<"p", "k", "g", "_", "c", "o", "n", "f", "i", "g">>} THEN Ok("PkgConfig")
    ELSE IF s \in {<<"i", "n", "f", "o">>, <<"p", "k", "g", "_", "i", "n", "f", "o">>} THEN Ok("PkgInfo")
    ELSE IF s \in {<<"n", "o", "f", "e", "t", "c", "h">>, <<"p", "k", "g", "_", "n", "o", "f", "e", "t", "c", "h">>} THEN Ok("PkgNofetch")
    ELSE Err("InvalidPhase", s)

\* impl Display for Phase
Phase_fmt(p) ==
    IF p = "PkgPretend" THEN <<"p", "r", "e", "t", "e", "n", "d">>
    ELSE IF p = "PkgSetup" THEN <<"s", "e", "t", "u", "p">>
    ELSE IF p = "SrcUnpack" THEN <<"u", "n", "p", "a", "c", "k">>
    ELSE IF p = "SrcPrepare" THEN <<"p", "r", "e", "p", "a", "r", "e">>
    ELSE IF p = "SrcConfigure" THEN <<"c", "o", "n", "f", "i", "g", "u", "r", "e">>
    ELSE IF p = "SrcCompile" THEN <<"c", "o", "m", "p", "i", "l", "e">>
    ELSE IF p = "SrcTest" THEN <<"t", "e", "s", "t">>
    ELSE IF p = "SrcInstall" THEN <<"i", "n", "s", "t", "a", "l", "l">>
    ELSE IF p = "PkgPreinst" THEN <<"p", "r", "e", "i", "n", "s", "t">>
    ELSE IF p = "PkgPostinst" THEN <<"p", "o", "s", "t", "i", "n", "s", "t">>
    ELSE IF p = "PkgPrerm" THEN <<"p", "r", "e", "r", "m">>
    ELSE IF p = "PkgPostrm" THEN <<"p", "o", "s", "t", "r", "m">>
    ELSE IF p = "PkgConfig" THEN <<"c", "o", "n", "f", "i", "g">>
    ELSE IF p = "PkgInfo" THEN <<"i", "n", "f", "o">>
    ELSE <<"n", "o", "f", "e", "t", "c", "h">>

\* the line compared with the sentinel as it stands, not trimmed
Phase_parse_line_Untrimmed(s) ==
    LET phases(tokens) == Collect([k \in 1..Len(tokens) |-> Phase_from_str(tokens[k])])
    IN  IF s = <<>> \/ s = <<"-">> THEN Ok(<<>>)
        ELSE phases(split_whitespace(s))

\* Phase::parse_line
Phase_parse_line(s) ==
    LET phases(tokens) == Collect([k \in 1..Len(tokens) |-> Phase_from_str(tokens[k])])
        line(trimmed) == IF trimmed = <<>> \/ trimmed = <<"-">> THEN Ok(<<>>)
                         ELSE phases(split_whitespace(trimmed))
    IN  line(Trim(s))

-----------------------------------------------------------------------------
(* KEYWORDS: src/src/keyword.rs *)

\* impl FromStr for Keyword
Keyword_from_str(s) ==
    IF s = <<>> THEN Err("InvalidKeyword", <<"empty keyword">>)
    ELSE IF s = <<"-", "*">> THEN Ok([arch |-> <<"*">>, stability |-> "DisabledAll"])
    ELSE IF s[1] = "~" THEN
        (IF Len(s) = 1 THEN Err("InvalidKeyword", s)
         ELSE Ok([arch |-> Tail(s), stability |-> "Testing"]))
    ELSE IF s[1] = "-" THEN
        (IF Len(s) = 1 THEN Err("InvalidKeyword", s)
         ELSE Ok([arch |-> Tail(s), stability |-> "Disabled"]))
    ELSE Ok([arch |-> s, stability |-> "Stable"])

\* Keyword::parse_line
Keyword_parse_line(s) ==
    LET each(tokens) == Collect([k \in 1..Len(tokens) |-> Keyword_from_str(tokens[k])])
    IN  each(split_whitespace(s))

\* impl Display for Keyword
Keyword_fmt(kw) ==
    IF kw.stability = "Stable" THEN kw.arch
    ELSE IF kw.stability = "Testing" THEN <<"~">> \o kw.arch
    ELSE IF kw.stability = "Disabled" THEN <<"-">> \o kw.arch
    ELSE <<"-", "*">>

-----------------------------------------------------------------------------
(* IUSE: src/src/iuse.rs *)

\* impl FromStr for IUse
IUse_from_str(s) ==
    IF s = <<>> THEN Err("InvalidIUse", <<"empty IUSE entry">>)
    ELSE IF s[1] = "+" THEN
        (IF Len(s) = 1 THEN Err("InvalidIUse", s)
         ELSE Ok([name |-> Tail(s), default |-> Some("Enabled")]))
    ELSE IF s[1] = "-" THEN
        (IF Len(s) = 1 THEN Err("InvalidIUse", s)
         ELSE Ok([name |-> Tail(s), default |-> Some("Disabled")]))
    ELSE Ok([name |-> s, default |-> None])

\* IUse::parse_line
IUse_parse_line(s) ==
    LET each(tokens) == Collect([k \in 1..Len(tokens) |-> IUse_from_str(tokens[k])])
    IN  each(split_whitespace(s))

\* impl Display for IUse
IUse_fmt(u) ==
    IF u.default = Some("Enabled") THEN <<"+">> \o u.name
    ELSE IF u.default = Some("Disabled") THEN <<"-">> \o u.name
    ELSE u.name

-----------------------------------------------------------------------------
(* The portage_atom crate, which the record parser calls for SLOT and the   *)
(* dependency fields.  It is not part of this repository: a Slot is the     *)
(* pair the record parser builds, and a dependency entry stands for one     *)
(* whitespace-separated atom, which must name a category and a package.     *)

Slot_new(slot)                   == [slot |-> slot, subslot |-> None]
Slot_with_subslot(slot, subslot) == [slot |-> slot, subslot |-> Some(subslot)]

Slot_fmt(sl) ==
    IF sl.subslot = None THEN sl.slot ELSE sl.slot \o <<"/">> \o sl.subslot[1]

DepEntry_parse(s) ==
    LET tokens == split_whitespace(s)
    IN  Collect([k \in 1..Len(tokens) |->
            IF \E j \in 1..Len(tokens[k]) : tokens[k][j] = "/"
            THEN Ok(tokens[k]) ELSE Err("DepError", <<>>)])

DepEntry_fmt(d) == d

-----------------------------------------------------------------------------
(* The md5-cache record: src/src/cache.rs *)


\* the keys of the lines of a record, as CacheEntry::parse matches them
Key == [
    EAPI |-> <<"E", "A", "P", "I">>,
    DESCRIPTION |-> <<"D", "E", "S", "C", "R", "I", "P", "T", "I", "O", "N">>,
    SLOT |-> <<"S", "L", "O", "T">>,
    HOMEPAGE |-> <<"H", "O", "M", "E", "P", "A", "G", "E">>,
    SRC_URI |-> <<"S", "R", "C", "_", "U", "R", "I">>,
    LICENSE |-> <<"L", "I", "C", "E", "N", "S", "E">>,
    KEYWORDS |-> <<"K", "E", "Y", "W", "O", "R", "D", "S">>,
    IUSE |-> <<"I", "U", "S", "E">>,
    REQUIRED_USE |-> <<"R", "E", "Q", "U", "I", "R", "E", "D", "_", "U", "S", "E">>,
    RESTRICT |-> <<"R", "E", "S", "T", "R", "I", "C", "T">>,
    PROPERTIES |-> <<"P", "R", "O", "P", "E", "R", "T", "I", "E", "S">>,
    DEPEND |-> <<"D", "E", "P", "E", "N", "D">>,
    RDEPEND |-> <<"R", "D", "E", "P", "E", "N", "D">>,
    BDEPEND |-> <<"B", "D", "E", "P", "E", "N", "D">>,
    PDEPEND |-> <<"P", "D", "E", "P", "E", "N", "D">>,
    IDEPEND |-> <<"I", "D", "E", "P", "E", "N", "D">>,
    INHERITED |-> <<"I", "N", "H", "E", "R", "I", "T", "E", "D">>,
    DEFINED_PHASES |-> <<"D", "E", "F", "I", "N", "E", "D", "_", "P", "H", "A", "S", "E", "S">>,
    md5 |-> <<"_", "m", "d", "5", "_">>,
    eclasses |-> <<"_", "e", "c", "l", "a", "s", "s", "e", "s", "_">>]

\* the keys CacheEntry::parse recognises
KnownKeys == {Key.EAPI, Key.DESCRIPTION, Key.SLOT, Key.HOMEPAGE, Key.SRC_URI, Key.LICENSE, Key.KEYWORDS, Key.IUSE, Key.REQUIRED_USE, Key.RESTRICT, Key.PROPERTIES, Key.DEPEND, Key.RDEPEND, Key.BDEPEND, Key.PDEPEND, Key.IDEPEND, Key.INHERITED, Key.DEFINED_PHASES, Key.md5, Key.eclasses}

\* the value split at its last '/'
parse_slot_LastSlash(s) ==
    LET j == AfterLast(s, "/") - 1
    IN  IF s = <<>> THEN Err("MissingField", Key.SLOT)
        ELSE IF j >= 1
        THEN Ok(Slot_with_subslot(Slice(s, 1, j), SubSeq(s, j + 1, Len(s))))
        ELSE Ok(Slot_new(s))

\* parse_slot
parse_slot(s) ==
    LET j == FirstAt(s, 1, "/")
    IN  IF s = <<>> THEN Err("MissingField", Key.SLOT)
        ELSE IF j <= Len(s)
        THEN Ok(Slot_with_subslot(Slice(s, 1, j), SubSeq(s, j + 1, Len(s))))
        ELSE Ok(Slot_new(s))

\* parse_dep_field
parse_dep_field(s) == IF s = <<>> THEN Ok(<<>>) ELSE DepEntry_parse(s)

\* the pairs of consecutive pieces: chunks(2), a chunk of one piece dropped
RECURSIVE PairsFrom(_, _)
PairsFrom(parts, k) ==
    IF k + 1 > Len(parts) THEN <<>>
    ELSE << <<parts[k], parts[k + 1]>> >> \o PairsFrom(parts, k + 2)

\* the pairing with a trailing unpaired name kept, its checksum empty
parse_eclasses_KeepLast(s) ==
    IF s = <<>> THEN <<>> ELSE PairsFrom(Split(s, "\t") \o << <<>> >>, 1)

\* parse_eclasses
parse_eclasses(s) == IF s = <<>> THEN <<>> ELSE PairsFrom(Split(s, "\t"), 1)

\* the phases joined with spaces, the empty list as the empty string
format_phases_Blank(phases) ==
    Join([k \in 1..Len(phases) |-> Phase_fmt(phases[k])], <<" ">>)

\* format_phases
format_phases(phases) ==
    IF phases = <<>> THEN <<"-">>
    ELSE Join([k \in 1..Len(phases) |-> Phase_fmt(phases[k])], <<" ">>)

\* format_dep_entries
format_dep_entries(entries) ==
    Join([k \in 1..Len(entries) |-> DepEntry_fmt(entries[k])], <<" ">>)

\* the locals of CacheEntry::parse before the first line is read
RawInit ==
    [eapi |-> None, description |-> None, slot |-> None, homepage |-> <<>>,
     src_uri |-> <<>>, license |-> <<>>, keywords |-> <<>>, iuse |-> <<>>,
     required_use |-> <<>>, restrict |-> <<>>, properties |-> <<>>, depend |-> <<>>,
     rdepend |-> <<>>, bdepend |-> <<>>, pdepend |-> <<>>, idepend |-> <<>>,
     inherited |-> <<>>, defined_phases |-> <<>>, md5 |-> None, eclasses_raw |-> <<>>]

\* the match on the key: a known key stores the value, the last line of a key wins
RawAssign(raw, key, value) ==
    IF key = Key.EAPI THEN [raw EXCEPT !.eapi = Some(value)]
    ELSE IF key = Key.DESCRIPTION THEN [raw EXCEPT !.description = Some(value)]
    ELSE IF key = Key.SLOT THEN [raw EXCEPT !.slot = Some(value)]
    ELSE IF key = Key.HOMEPAGE THEN [raw EXCEPT !.homepage = value]
    ELSE IF key = Key.SRC_URI THEN [raw EXCEPT !.src_uri = value]
    ELSE IF key = Key.LICENSE THEN [raw EXCEPT !.license = value]
    ELSE IF key = Key.KEYWORDS THEN [raw EXCEPT !.keywords = value]
    ELSE IF key = Key.IUSE THEN [raw EXCEPT !.iuse = value]
    ELSE IF key = Key.REQUIRED_USE THEN [raw EXCEPT !.required_use = value]
    ELSE IF key = Key.RESTRICT THEN [raw EXCEPT !.restrict = value]
    ELSE IF key = Key.PROPERTIES THEN [raw EXCEPT !.properties = value]
    ELSE IF key = Key.DEPEND THEN [raw EXCEPT !.depend = value]
    ELSE IF key = Key.RDEPEND THEN [raw EXCEPT !.rdepend = value]
    ELSE IF key = Key.BDEPEND THEN [raw EXCEPT !.bdepend = value]
    ELSE IF key = Key.PDEPEND THEN [raw EXCEPT !.pdepend = value]
    ELSE IF key = Key.IDEPEND THEN [raw EXCEPT !.idepend = value]
    ELSE IF key = Key.INHERITED THEN [raw EXCEPT !.inherited = value]
    ELSE IF key = Key.DEFINED_PHASES THEN [raw EXCEPT !.defined_phases = value]
    ELSE IF key = Key.md5 THEN [raw EXCEPT !.md5 = Some(value)]
    ELSE IF key = Key.eclasses THEN [raw EXCEPT !.eclasses_raw = value]
    ELSE raw

\* a line with the key upper-cased before it is matched
RawLine_AnyCase(raw, untrimmed) ==
    LET line == Trim(untrimmed)
        eq == FirstAt(line, 1, "=")
        key == [k \in 1..(eq - 1) |-> to_ascii_uppercase(line[k])]
    IN  IF line = <<>> \/ eq > Len(line) THEN raw
        ELSE RawAssign(raw, key, SubSeq(line, eq + 1, Len(line)))

\* the body of the loop over input.lines(): the line is trimmed, an empty line is
\* skipped, and a line is read only if split_once('=') finds a '='
RawLine(raw, untrimmed) ==
    LET line == Trim(untrimmed)
        eq == FirstAt(line, 1, "=")
    IN  IF line = <<>> THEN raw
        ELSE IF eq > Len(line) THEN raw
        ELSE RawAssign(raw, Slice(line, 1, eq), SubSeq(line, eq + 1, Len(line)))

RECURSIVE RawFrom(_, _, _)
\* the lines read from the last to the first, so that the first line of a key wins
RawFrom_Backwards(lines, k, raw) ==
    IF k > Len(lines) THEN raw
    ELSE RawFrom(lines, k + 1, RawLine(raw, lines[Len(lines) + 1 - k]))

RawFrom(lines, k, raw) ==
    IF k > Len(lines) THEN raw ELSE RawFrom(lines, k + 1, RawLine(raw, lines[k]))

\* the loop over input.lines()
RawFields(s) == RawFrom(str_lines(s), 1, RawInit)

\* an Option<T> field of a grammar: None for an empty value
OptionalTree(value, r) == IF value = <<>> THEN Ok(None) ELSE
                          IF r.ok THEN Ok(Some(r.val)) ELSE r

\* a Vec<T> field: empty for an empty value
OptionalList(value, r) == IF value = <<>> THEN Ok(<<>>) ELSE r

\* the fields with BDEPEND refused when the record is of the oldest version
FieldResults_Gated(raw) ==
    << IF raw.eapi = None THEN Ok(EapiZero) ELSE Eapi_from_str(raw.eapi[1]),
       IF raw.description = None THEN Err("MissingField", Key.DESCRIPTION)
                                 ELSE Ok(raw.description[1]),
       IF raw.slot = None THEN Err("MissingField", Key.SLOT) ELSE parse_slot(raw.slot[1]),
       OptionalList(raw.homepage, Ok(split_whitespace(raw.homepage))),
       OptionalList(raw.src_uri, SrcUriEntry_parse(raw.src_uri)),
       OptionalTree(raw.license, LicenseExpr_parse(raw.license)),
       OptionalList(raw.keywords, Keyword_parse_line(raw.keywords)),
       OptionalList(raw.iuse, IUse_parse_line(raw.iuse)),
       OptionalTree(raw.required_use, RequiredUseExpr_parse(raw.required_use)),
       OptionalList(raw.restrict, RestrictExpr_parse(raw.restrict)),
       OptionalList(raw.properties, RestrictExpr_parse(raw.properties)),
       parse_dep_field(raw.depend),
       parse_dep_field(raw.rdepend),
       IF raw.bdepend # <<>> /\ (raw.eapi = None \/ raw.eapi = Some(<<"0">>))
           THEN Err("InvalidCacheEntry", Key.BDEPEND)
           ELSE parse_dep_field(raw.bdepend),
       parse_dep_field(raw.pdepend),
       parse_dep_field(raw.idepend),
       OptionalList(raw.inherited, Ok(split_whitespace(raw.inherited))),
       Phase_parse_line(raw.defined_phases) >>

\* the fields of CacheEntry::parse after the loop, each a Result, in the order
\* the code evaluates them
FieldResults(raw) ==
    << IF raw.eapi = None THEN Ok(EapiZero) ELSE Eapi_from_str(raw.eapi[1]),
       IF raw.description = None THEN Err("MissingField", Key.DESCRIPTION)
                                 ELSE Ok(raw.description[1]),
       IF raw.slot = None THEN Err("MissingField", Key.SLOT) ELSE parse_slot(raw.slot[1]),
       OptionalList(raw.homepage, Ok(split_whitespace(raw.homepage))),
       OptionalList(raw.src_uri, SrcUriEntry_parse(raw.src_uri)),
       OptionalTree(raw.license, LicenseExpr_parse(raw.license)),
       OptionalList(raw.keywords, Keyword_parse_line(raw.keywords)),
       OptionalList(raw.iuse, IUse_parse_line(raw.iuse)),
       OptionalTree(raw.required_use, RequiredUseExpr_parse(raw.required_use)),
       OptionalList(raw.restrict, RestrictExpr_parse(raw.restrict)),
       OptionalList(raw.properties, RestrictExpr_parse(raw.properties)),
       parse_dep_field(raw.depend),
       parse_dep_field(raw.rdepend),
       parse_dep_field(raw.bdepend),
       parse_dep_field(raw.pdepend),
       parse_dep_field(raw.idepend),
       OptionalList(raw.inherited, Ok(split_whitespace(raw.inherited))),
       Phase_parse_line(raw.defined_phases) >>

\* the error of the last failing field
FirstError_Last(f) ==
    LET bad == {k \in 1..Len(f) : ~f[k].ok}
    IN  f[CHOOSE k \in bad : \A j \in bad : j <= k]

\* the ? operator: the error returned is that of the first field that fails
FirstError(f) ==
    LET bad == {k \in 1..Len(f) : ~f[k].ok}
    IN  f[CHOOSE k \in bad : \A j \in bad : k <= j]

\* CacheEntry::parse after its loop: with the results f of the fields of raw, the
\* record is built when no field fails
CacheEntry_build(raw, f) ==
    IF \E k \in 1..Len(f) : ~f[k].ok THEN FirstError(f)
    ELSE Ok([eapi |-> f[1].val, description |-> f[2].val, slot |-> f[3].val,
             homepage |-> f[4].val, src_uri |-> f[5].val, license |-> f[6].val,
             keywords |-> f[7].val, iuse |-> f[8].val, required_use |-> f[9].val,
             restrict |-> f[10].val, properties |-> f[11].val,
             depend |-> f[12].val, rdepend |-> f[13].val, bdepend |-> f[14].val,
             pdepend |-> f[15].val, idepend |-> f[16].val,
             inherited |-> f[17].val, defined_phases |-> f[18].val,
             md5 |-> raw.md5, eclasses |-> parse_eclasses(raw.eclasses_raw)])

\* CacheEntry::parse: the loop over the lines, then the fields
CacheEntry_parse(s) ==
    LET fields(raw) == CacheEntry_build(raw, FieldResults(raw))
    IN  fields(RawFields(s))

\* a line KEY=value
Line(key, value) == key \o <<"=">> \o value

\* a line pushed only if the field is not empty
LineIf(cond, key, value) == IF cond THEN <<Line(key, value)>> ELSE <<>>

\* CacheEntry::serialize
CacheEntry_serialize(e) ==
    LET lines ==
               <<Line(Key.DEFINED_PHASES, format_phases(e.defined_phases))>>
            \o LineIf(e.depend # <<>>, Key.DEPEND, format_dep_entries(e.depend))
            \o <<Line(Key.DESCRIPTION, e.description)>>
            \o <<Line(Key.EAPI, Eapi_fmt(e.eapi))>>
            \o LineIf(e.homepage # <<>>, Key.HOMEPAGE, Join(e.homepage, <<" ">>))
            \o LineIf(e.iuse # <<>>, Key.IUSE,
                      Join([k \in 1..Len(e.iuse) |-> IUse_fmt(e.iuse[k])], <<" ">>))
            \o LineIf(e.keywords # <<>>, Key.KEYWORDS,
                      Join([k \in 1..Len(e.keywords) |-> Keyword_fmt(e.keywords[k])], <<" ">>))
            \o (IF e.license # None THEN <<Line(Key.LICENSE, LicenseExpr_fmt(e.license[1]))>>
                ELSE <<>>)
            \o LineIf(e.pdepend # <<>>, Key.PDEPEND, format_dep_entries(e.pdepend))
            \o LineIf(e.rdepend # <<>>, Key.RDEPEND, format_dep_entries(e.rdepend))
            \o (IF e.required_use # None
                THEN <<Line(Key.REQUIRED_USE, RequiredUseExpr_fmt(e.required_use[1]))>>
                ELSE <<>>)
            \o LineIf(e.restrict # <<>>, Key.RESTRICT, RestrictExpr_join(e.restrict))
            \o <<Line(Key.SLOT, Slot_fmt(e.slot))>>
            \o LineIf(e.src_uri # <<>>, Key.SRC_URI, SrcUriEntry_join(e.src_uri))
            \o LineIf(e.bdepend # <<>>, Key.BDEPEND, format_dep_entries(e.bdepend))
            \o LineIf(e.idepend # <<>>, Key.IDEPEND, format_dep_entries(e.idepend))
            \o LineIf(e.properties # <<>>, Key.PROPERTIES, RestrictExpr_join(e.properties))
            \o LineIf(e.inherited # <<>>, Key.INHERITED, Join(e.inherited, <<" ">>))
            \o LineIf(e.eclasses # <<>>, Key.eclasses,
                      Join(Flatten(e.eclasses), <<"\t">>))
            \o (IF e.md5 # None THEN <<Line(Key.md5, e.md5[1])>> ELSE <<>>)
            \o << <<>> >>
    IN  Join(lines, <<"\n">>)

-----------------------------------------------------------------------------
(* The callers: parse a text, render what was parsed, parse the rendering. *)

\* a line of a record as its writer sees it: a key, and a value when there is a '='
LineText(l) == IF l.eq THEN Line(l.key, l.value) ELSE l.key

\* the text of a record: its lines, each ended by a line feed
RecordText(r) == Flatten([k \in 1..Len(r) |-> LineText(r[k]) \o <<"\n">>])

ParseWith(r) ==
    /\ pc = "start"
    /\ res' = r
    /\ pc' = "parsed"
    /\ UNCHANGED <<op, input, rec, text, res2>>

RenderWith(s) ==
    /\ pc = "parsed"
    /\ res.ok
    /\ text' = s
    /\ pc' = "rendered"
    /\ UNCHANGED <<op, input, rec, res, res2>>

ReparseWith(r) ==
    /\ pc = "rendered"
    /\ res2' = r
    /\ pc' = "reparsed"
    /\ UNCHANGED <<op, input, rec, res, text>>

LicenseParse       == op = "license" /\ ParseWith(LicenseExpr_parse(input))
LicenseDisplay     == op = "license" /\ RenderWith(LicenseExpr_fmt(res.val))
LicenseReparse     == op = "license" /\ ReparseWith(LicenseExpr_parse(text))

RequiredUseParse   == op = "required_use" /\ ParseWith(RequiredUseExpr_parse(input))
RequiredUseDisplay == op = "required_use" /\ RenderWith(RequiredUseExpr_fmt(res.val))
RequiredUseReparse == op = "required_use" /\ ReparseWith(RequiredUseExpr_parse(text))

RestrictParse      == op = "restrict" /\ ParseWith(RestrictExpr_parse(input))
RestrictDisplay    == op = "restrict" /\ RenderWith(RestrictExpr_join(res.val))
RestrictReparse    == op = "restrict" /\ ReparseWith(RestrictExpr_parse(text))

RestrictFlatTokens == op = "restrict" /\ RenderWith(RestrictExpr_flat_tokens(res.val))

SrcUriParse        == op = "src_uri" /\ ParseWith(SrcUriEntry_parse(input))
SrcUriDisplay      == op = "src_uri" /\ RenderWith(SrcUriEntry_join(res.val))
SrcUriReparse      == op = "src_uri" /\ ReparseWith(SrcUriEntry_parse(text))

CacheParse         == op = "cache" /\ ParseWith(CacheEntry_parse(input))
CacheSerialize     == op = "cache" /\ RenderWith(CacheEntry_serialize(res.val))
CacheReparse       == op = "cache" /\ ReparseWith(CacheEntry_parse(text))

EclassesParse      == op = "eclasses" /\ ParseWith(Ok(parse_eclasses(input)))

\* the lines CacheEntry::parse is documented to ignore: blank ones, and ones
\* whose key it does not know
IgnoredLines == {[key |-> <<>>, eq |-> FALSE, value |-> <<>>],
    [key |-> <<" ">>, eq |-> FALSE, value |-> <<>>],
    [key |-> <<"F", "O", "O">>, eq |-> TRUE, value |-> <<"1">>],
    [key |-> <<"e", "a", "p", "i">>, eq |-> TRUE, value |-> <<"x">>],
    [key |-> <<>>, eq |-> TRUE, value |-> <<"x">>]}

\* r with line l put before its line at position k
InsertAt(r, k, l) == SubSeq(r, 1, k - 1) \o <<l>> \o SubSeq(r, k, Len(r))

\* an ignored line is added to the record, which is parsed again
CacheInsertIgnored ==
    /\ op = "cache"
    /\ pc = "parsed"
    /\ \E k \in 1..(Len(rec) + 1), l \in IgnoredLines :
          /\ rec' = InsertAt(rec, k, l)
          /\ input' = RecordText(rec')
          /\ res' = CacheEntry_parse(input')
    /\ pc' = "edited"
    /\ UNCHANGED <<op, text, res2>>

Start ==
    /\ pc = "start"
    /\ res = NoResult
    /\ text = <<>>
    /\ res2 = NoResult

\* LICENSE and REQUIRED_USE
TreePieces == {<<"a">>, <<"+">>, <<"|", "|">>, <<"^", "^">>, <<"(">>, <<")">>, <<" ">>,
               <<"?">>, <<"!">>}

InitTree ==
    /\ op \in {"license", "required_use"}
    /\ \E ps \in SeqsUpTo(TreePieces, MaxTreePieces) : input = Flatten(ps)
    /\ rec = <<>>
    /\ Start

NextTree ==
    \/ LicenseParse \/ LicenseDisplay \/ LicenseReparse
    \/ RequiredUseParse \/ RequiredUseDisplay \/ RequiredUseReparse

SpecTree == InitTree /\ [][NextTree]_vars

\* RESTRICT and PROPERTIES
RestrictPieces == {<<"a">>, <<".">>, <<"(">>, <<")">>, <<" ">>, <<"?">>, <<"!">>}

InitRestrict ==
    /\ op = "restrict"
    /\ \E ps \in SeqsUpTo(RestrictPieces, MaxRestrictPieces) : input = Flatten(ps)
    /\ rec = <<>>
    /\ Start

NextRestrict == RestrictParse \/ RestrictDisplay \/ RestrictReparse

SpecRestrict == InitRestrict /\ [][NextRestrict]_vars

\* RESTRICT: parsed, then flattened
MaxFlatPieces == 5

FlatPieces == {<<"a">>, <<".", " ">>, <<"a", "?", "(">>, <<"(">>, <<")">>, <<" ">>, <<"!">>}

InitFlat ==
    /\ op = "restrict"
    /\ \E ps \in SeqsUpTo(FlatPieces, MaxFlatPieces) : input = Flatten(ps)
    /\ rec = <<>>
    /\ Start

NextFlat == RestrictParse \/ RestrictFlatTokens

SpecFlat == InitFlat /\ [][NextFlat]_vars

\* SRC_URI
SrcUriPieces == {<<"a">>, <<"/">>, <<"?">>, <<"-">>, <<"-", ">">>, <<" ">>, <<"(">>, <<")">>,
                 <<"!">>, Fetch \o <<"+">>}

InitSrcUri ==
    /\ op = "src_uri"
    /\ \E ps \in SeqsUpTo(SrcUriPieces, MaxSrcUriPieces) : input = Flatten(ps)
    /\ rec = <<>>
    /\ Start

NextSrcUri == SrcUriParse \/ SrcUriDisplay \/ SrcUriReparse

SpecSrcUri == InitSrcUri /\ [][NextSrcUri]_vars

\* LICENSE: names written with '-', '.' and '+'
MaxNamePieces == 5

NamePieces == {<<"a">>, <<"+">>, <<"-">>, <<".">>, <<" ">>, <<"(">>, <<")">>, <<"|", "|">>,
               <<"?">>}

InitNames ==
    /\ op = "license"
    /\ \E ps \in SeqsUpTo(NamePieces, MaxNamePieces) : input = Flatten(ps)
    /\ rec = <<>>
    /\ Start

NextNames == LicenseParse

SpecNames == InitNames /\ [][NextNames]_vars

\* SRC_URI: atoms with markers and rename targets
MaxAtomPieces == 4

AtomPieces == {<<"a">>, <<"/">>, <<"?">>, <<".">>, <<" ">>, <<" ", "-", ">", " ">>,
               Fetch \o <<"+">>, Mirror \o <<"+">>}

InitAtoms ==
    /\ op = "src_uri"
    /\ \E ps \in SeqsUpTo(AtomPieces, MaxAtomPieces) : input = Flatten(ps)
    /\ rec = <<>>
    /\ Start

NextAtoms == SrcUriParse \/ SrcUriDisplay

SpecAtoms == InitAtoms /\ [][NextAtoms]_vars

\* the four grammars on the same texts
MaxGrammarPieces == 4

GrammarPieces == {<<"a">>, <<"|", "|">>, <<"^", "^">>, <<"(">>, <<")">>, <<" ">>,
                  <<"?">>, <<"!">>, <<"%">>}

InitGrammars ==
    /\ op \in {"license", "required_use", "restrict", "src_uri"}
    /\ \E ps \in SeqsUpTo(GrammarPieces, MaxGrammarPieces) : input = Flatten(ps)
    /\ rec = <<>>
    /\ Start

NextGrammars == LicenseParse \/ RequiredUseParse \/ RestrictParse \/ SrcUriParse

SpecGrammars == InitGrammars /\ [][NextGrammars]_vars

\* _eclasses_
EclassChars == {"a", "b", "\t"}

InitEclasses ==
    /\ op = "eclasses"
    /\ input \in SeqsUpTo(EclassChars, MaxEclassLen)
    /\ rec = <<>>
    /\ Start

NextEclasses == EclassesParse

SpecEclasses == InitEclasses /\ [][NextEclasses]_vars

\* records: parsed, serialized, parsed again
CacheLines == {
    [key |-> Key.DESCRIPTION, eq |-> TRUE, value |-> <<"d">>],
    [key |-> Key.SLOT, eq |-> TRUE, value |-> <<"0">>],
    [key |-> Key.SLOT, eq |-> TRUE, value |-> <<>>],
    [key |-> Key.EAPI, eq |-> TRUE, value |-> <<"7">>],
    [key |-> Key.EAPI, eq |-> TRUE, value |-> <<"x">>],
    [key |-> Key.EAPI, eq |-> TRUE, value |-> <<>>],
    [key |-> Key.DEFINED_PHASES, eq |-> TRUE, value |-> <<"-">>],
    [key |-> Key.DEFINED_PHASES, eq |-> TRUE, value |-> <<>>],
    [key |-> Key.DEFINED_PHASES, eq |-> TRUE, value |-> <<" ", "-">>],
    [key |-> Key.DEFINED_PHASES, eq |-> TRUE, value |-> <<"\f", "-", "\r">>],
    [key |-> Key.DEFINED_PHASES, eq |-> TRUE, value |-> <<"t", "e", "s", "t", " ", "i", "n", "f", "o">>],
    [key |-> Key.DEFINED_PHASES, eq |-> TRUE, value |-> <<"i", "n", "f", "o", "\f", "z", "z">>],
    [key |-> <<"j", "u", "n", "k">>, eq |-> FALSE, value |-> <<>>],
    [key |-> Key.LICENSE, eq |-> TRUE, value |-> <<"(", " ", ")">>],
    [key |-> Key.eclasses, eq |-> TRUE, value |-> <<"a", "\t", "\t", "b">>],
    [key |-> <<"F", "O", "O">>, eq |-> TRUE, value |-> <<"1">>],
    [key |-> <<>>, eq |-> FALSE, value |-> <<>>]}

InitCache ==
    /\ op = "cache"
    /\ rec \in SeqsUpTo(CacheLines, MaxCacheLines)
    /\ input = RecordText(rec)
    /\ Start

NextCache == CacheParse \/ CacheSerialize \/ CacheReparse

SpecCache == InitCache /\ [][NextCache]_vars

\* records: parsed, then parsed again with one more line that is to be ignored
CacheInsertLines == {
    [key |-> Key.DESCRIPTION, eq |-> TRUE, value |-> <<"d">>],
    [key |-> Key.SLOT, eq |-> TRUE, value |-> <<"0">>],
    [key |-> Key.EAPI, eq |-> TRUE, value |-> <<"7">>],
    [key |-> Key.EAPI, eq |-> TRUE, value |-> <<"x">>],
    [key |-> Key.DEFINED_PHASES, eq |-> TRUE, value |-> <<"i", "n", "f", "o", " ", "z", "z">>],
    [key |-> <<"j", "u", "n", "k">>, eq |-> FALSE, value |-> <<>>],
    [key |-> Key.LICENSE, eq |-> TRUE, value |-> <<"(", " ", ")">>],
    [key |-> Key.RESTRICT, eq |-> TRUE, value |-> <<"a">>]}

InitCacheInsert ==
    /\ op = "cache"
    /\ rec \in SeqsUpTo(CacheInsertLines, MaxCacheLines)
    /\ input = RecordText(rec)
    /\ Start

NextCacheInsert == CacheParse \/ CacheInsertIgnored

SpecCacheInsert == InitCacheInsert /\ [][NextCacheInsert]_vars

\* the positions of the lines of r that a later line of r with the same known key
\* overrides
Overridden(r) ==
    {k \in 1..Len(r) : /\ r[k].eq
                       /\ r[k].key \in KnownKeys
                       /\ \E j \in (k + 1)..Len(r) : r[j].eq /\ r[j].key = r[k].key}

\* r without its line at position k
RemoveAt(r, k) == SubSeq(r, 1, k - 1) \o SubSeq(r, k + 1, Len(r))

\* an overridden line is taken out of the record, which is parsed again
CacheDropOverridden ==
    /\ op = "cache"
    /\ pc = "parsed"
    /\ \E k \in Overridden(rec) :
          /\ rec' = RemoveAt(rec, k)
          /\ input' = RecordText(rec')
          /\ res' = CacheEntry_parse(input')
    /\ pc' = "edited"
    /\ UNCHANGED <<op, text, res2>>

\* a line KEY= with an empty value, of a key that the record does not have and
\* that is not a mandatory one, is added to the record, which is parsed again
CacheInsertEmpty ==
    /\ op = "cache"
    /\ pc = "parsed"
    /\ \E k \in 1..(Len(rec) + 1),
          K \in KnownKeys \ {Key.EAPI, Key.DESCRIPTION, Key.SLOT} :
          /\ \A j \in 1..Len(rec) : rec[j].key # K
          /\ rec' = InsertAt(rec, k, [key |-> K, eq |-> TRUE, value |-> <<>>])
          /\ input' = RecordText(rec')
          /\ res' = CacheEntry_parse(input')
    /\ pc' = "edited"
    /\ UNCHANGED <<op, text, res2>>

NextCacheEmpty == CacheParse \/ CacheInsertEmpty

SpecCacheEmpty == InitCacheInsert /\ [][NextCacheEmpty]_vars

\* the positions of the EAPI lines of r
EapiLines(r) == {j \in 1..Len(r) : r[j].eq /\ r[j].key = Key.EAPI}

\* the EAPI line of a record is added, changed to another version or taken out,
\* and the record is parsed again
CacheChangeEapi ==
    /\ op = "cache"
    /\ pc = "parsed"
    /\ \E k \in 1..(Len(rec) + 1), v \in {<<"0">>, <<"4">>, <<"8">>} :
          /\ \/ /\ EapiLines(rec) = {}
                /\ rec' = InsertAt(rec, k, [key |-> Key.EAPI, eq |-> TRUE, value |-> v])
             \/ /\ EapiLines(rec) = {k}
                /\ rec[k].value # v
                /\ rec' = [rec EXCEPT ![k].value = v]
             \/ /\ EapiLines(rec) = {k}
                /\ rec' = RemoveAt(rec, k)
          /\ input' = RecordText(rec')
          /\ res' = CacheEntry_parse(input')
    /\ pc' = "edited"
    /\ UNCHANGED <<op, text, res2>>

\* records with what later versions brought in, and an EAPI line or none
MaxEapiLines == 3

CacheEapiLines == {
    [key |-> Key.DESCRIPTION, eq |-> TRUE, value |-> <<"d">>],
    [key |-> Key.SLOT, eq |-> TRUE, value |-> <<"0">>],
    [key |-> Key.EAPI, eq |-> TRUE, value |-> <<"0">>],
    [key |-> Key.REQUIRED_USE, eq |-> TRUE, value |-> <<"?", "?", " ", "(", " ", "a", " ", ")">>],
    [key |-> Key.RESTRICT, eq |-> TRUE, value |-> <<"a", "?", " ", "(", " ", "b", " ", ")">>],
    [key |-> Key.SRC_URI, eq |-> TRUE, value |-> Fetch \o <<"+", "a", "/", "b">>],
    [key |-> Key.BDEPEND, eq |-> TRUE, value |-> <<"a", "/", "b">>],
    [key |-> Key.IDEPEND, eq |-> TRUE, value |-> <<"a", "/", "b">>],
    [key |-> Key.LICENSE, eq |-> TRUE, value |-> <<"(">>]}

InitCacheEapi ==
    /\ op = "cache"
    /\ rec \in SeqsUpTo(CacheEapiLines, MaxEapiLines)
    /\ input = RecordText(rec)
    /\ Start

NextCacheEapi == CacheParse \/ CacheChangeEapi

SpecCacheEapi == InitCacheEapi /\ [][NextCacheEapi]_vars

\* records with keys that occur on several lines
MaxRepeatLines == 4

CacheRepeatLines == {
    [key |-> Key.DESCRIPTION, eq |-> TRUE, value |-> <<"d">>],
    [key |-> Key.DESCRIPTION, eq |-> TRUE, value |-> <<"a", "=", "b">>],
    [key |-> Key.SLOT, eq |-> TRUE, value |-> <<"0">>],
    [key |-> Key.SLOT, eq |-> TRUE, value |-> <<>>],
    [key |-> Key.EAPI, eq |-> TRUE, value |-> <<"7">>],
    [key |-> Key.LICENSE, eq |-> TRUE, value |-> <<"a">>],
    [key |-> Key.LICENSE, eq |-> TRUE, value |-> <<"(">>],
    [key |-> Key.md5, eq |-> TRUE, value |-> <<"a">>]}

InitCacheRepeat ==
    /\ op = "cache"
    /\ rec \in SeqsUpTo(CacheRepeatLines, MaxRepeatLines)
    /\ input = RecordText(rec)
    /\ Start

NextCacheRepeat == CacheParse \/ CacheDropOverridden

SpecCacheRepeat == InitCacheRepeat /\ [][NextCacheRepeat]_vars

\* records with a valid line of every key, in any order: parsed, then serialized
MaxOrderLines == 3

CacheOrderLines == {
    [key |-> Key.EAPI, eq |-> TRUE, value |-> <<"7">>],
    [key |-> Key.HOMEPAGE, eq |-> TRUE, value |-> <<"h">>],
    [key |-> Key.SRC_URI, eq |-> TRUE, value |-> <<"a", "/", "b">>],
    [key |-> Key.LICENSE, eq |-> TRUE, value |-> <<"a">>],
    [key |-> Key.KEYWORDS, eq |-> TRUE, value |-> <<"~", "a">>],
    [key |-> Key.IUSE, eq |-> TRUE, value |-> <<"+", "a">>],
    [key |-> Key.REQUIRED_USE, eq |-> TRUE, value |-> <<"a">>],
    [key |-> Key.RESTRICT, eq |-> TRUE, value |-> <<"a">>],
    [key |-> Key.PROPERTIES, eq |-> TRUE, value |-> <<"a">>],
    [key |-> Key.DEPEND, eq |-> TRUE, value |-> <<"a", "/", "b">>],
    [key |-> Key.RDEPEND, eq |-> TRUE, value |-> <<"a", "/", "b">>],
    [key |-> Key.BDEPEND, eq |-> TRUE, value |-> <<"a", "/", "b">>],
    [key |-> Key.PDEPEND, eq |-> TRUE, value |-> <<"a", "/", "b">>],
    [key |-> Key.IDEPEND, eq |-> TRUE, value |-> <<"a", "/", "b">>],
    [key |-> Key.INHERITED, eq |-> TRUE, value |-> <<"a">>],
    [key |-> Key.DEFINED_PHASES, eq |-> TRUE, value |-> <<"t", "e", "s", "t">>],
    [key |-> Key.eclasses, eq |-> TRUE, value |-> <<"a", "\t", "b">>],
    [key |-> Key.md5, eq |-> TRUE, value |-> <<"a">>]}

InitCacheOrder ==
    /\ op = "cache"
    /\ \E ls \in SeqsUpTo(CacheOrderLines, MaxOrderLines) :
          rec = <<[key |-> Key.SLOT, eq |-> TRUE, value |-> <<"0">>]>> \o ls
                \o <<[key |-> Key.DESCRIPTION, eq |-> TRUE, value |-> <<"d">>]>>
    /\ input = RecordText(rec)
    /\ Start

NextCacheOrder == CacheParse \/ CacheSerialize

SpecCacheOrder == InitCacheOrder /\ [][NextCacheOrder]_vars

-----------------------------------------------------------------------------
(* What the properties say about a record, read off the lines it was written *)
(* from rather than off the parser.                                          *)

\* the positions of the lines of r with key K
KeyLines(r, K) == {k \in 1..Len(r) : r[k].eq /\ r[k].key = K}

HasLine(r, K) == KeyLines(r, K) # {}

\* the value of the last line of r with key K
LastValue(r, K) == r[CHOOSE k \in KeyLines(r, K) : \A j \in KeyLines(r, K) : j <= k].value

\* r without its lines with key K
WithoutKey(r, K) == LET keep == {k \in 1..Len(r) : ~(r[k].eq /\ r[k].key = K)}
                        RECURSIVE pick(_)
                        pick(k) == IF k > Len(r) THEN <<>>
                                   ELSE (IF k \in keep THEN <<r[k]>> ELSE <<>>) \o pick(k + 1)
                    IN  pick(1)

\* one of "0" .. "9"
IsEapiValue(v) == Len(v) = 1 /\ v[1] \in Digit

\* the EAPI line of r, if it has one, names a version
EapiLineFine(r) == ~HasLine(r, Key.EAPI) \/ IsEapiValue(LastValue(r, Key.EAPI))

\* the record of a description and a slot and nothing else
MinimalRecord(description, slot) ==
    [eapi |-> EapiZero, description |-> description, slot |-> Slot_new(slot),
     homepage |-> <<>>, src_uri |-> <<>>, license |-> None, keywords |-> <<>>,
     iuse |-> <<>>, required_use |-> None, restrict |-> <<>>, properties |-> <<>>,
     depend |-> <<>>, rdepend |-> <<>>, bdepend |-> <<>>, pdepend |-> <<>>,
     idepend |-> <<>>, inherited |-> <<>>, defined_phases |-> <<>>,
     md5 |-> None, eclasses |-> <<>>]

-----------------------------------------------------------------------------
(* C1. Record round-trip: whenever CacheEntry::parse succeeds with a record  *)
(* r, parsing r.serialize() succeeds and yields a record equal to r in every *)
(* field, md5 and the eclasses list included.                                *)
C1_RecordRoundTrip ==
    (op = "cache" /\ pc = "reparsed") => (res2.ok /\ SameResult(res2, res))

-----------------------------------------------------------------------------
(* C2. LICENSE and REQUIRED_USE round-trip: for every accepted input, the    *)
(* Display rendering of the parsed tree parses again, to an equal tree.      *)
C2_TreeRoundTrip ==
    (op \in {"license", "required_use"} /\ pc = "reparsed")
        => (res2.ok /\ SameResult(res2, res))

\* a negated USE-conditional was parsed from a text that is not its rendering,
\* rendered and parsed again
C2_Witness ==
    /\ op = "license"
    /\ pc = "reparsed"
    /\ res.val.kind = "UseConditional"
    /\ res.val.negated
    /\ text # input

-----------------------------------------------------------------------------
(* C3. RESTRICT/PROPERTIES round-trip: for every accepted input, the Display *)
(* renderings of the parsed entries, joined by single spaces, parse again to *)
(* an equal list; inputs with bare parenthesized groups are included.        *)
C3_RestrictRoundTrip ==
    (op = "restrict" /\ pc = "reparsed") => (res2.ok /\ SameResult(res2, res))

-----------------------------------------------------------------------------
(* C4. SRC_URI round-trip: for every accepted input, the Display renderings  *)
(* of the parsed entries, joined by single spaces, parse again to an equal   *)
(* list: the same filename, rename target, restriction marker and Group      *)
(* nodes.                                                                    *)
C4_SrcUriRoundTrip ==
    (op = "src_uri" /\ pc = "reparsed") => (res2.ok /\ SameResult(res2, res))

\* a restricted, renamed URI was parsed from a text that is not its rendering,
\* rendered and parsed again
C4_Witness ==
    /\ op = "src_uri"
    /\ pc = "reparsed"
    /\ Len(res.val) = 1
    /\ res.val[1].kind = "Renamed"
    /\ res.val[1].restriction = Some(Fetch)
    /\ text # input

-----------------------------------------------------------------------------
(* C5. Mandatory fields: a record with no DESCRIPTION line fails with        *)
(* MissingField("DESCRIPTION"); one with a DESCRIPTION line and no SLOT line *)
(* fails with MissingField("SLOT"); one of just a DESCRIPTION line and a     *)
(* non-empty SLOT line parses, every optional field empty or absent.  The    *)
(* first two are said of records whose EAPI line, if any, names a version:   *)
(* EAPI is the one field read before them.                                   *)
C5_MandatoryFields ==
    (op = "cache" /\ pc = "parsed") =>
        /\ (EapiLineFine(rec) /\ ~HasLine(rec, Key.DESCRIPTION))
              => SameResult(res, Err("MissingField", Key.DESCRIPTION))
        /\ (EapiLineFine(rec) /\ HasLine(rec, Key.DESCRIPTION) /\ ~HasLine(rec, Key.SLOT))
              => SameResult(res, Err("MissingField", Key.SLOT))
        /\ (/\ Len(rec) = 2
            /\ \E d \in KeyLines(rec, Key.DESCRIPTION), l \in KeyLines(rec, Key.SLOT) :
                  rec[l].value # <<>>)
              => SameResult(res, Ok(MinimalRecord(LastValue(rec, Key.DESCRIPTION),
                                                  LastValue(rec, Key.SLOT))))

\* a record of a SLOT line and a DESCRIPTION line was parsed
C5_Witness ==
    /\ op = "cache"
    /\ pc = "parsed"
    /\ Len(rec) = 2
    /\ rec[1].key = Key.SLOT
    /\ rec[2].key = Key.DESCRIPTION
    /\ res.ok

-----------------------------------------------------------------------------
(* C6. EAPI: a record with no EAPI line parses with Eapi::Zero, for which    *)
(* every feature predicate is false; the value of an EAPI line must be one   *)
(* of "0" .. "9" and selects that version; any other value, the empty one    *)
(* included, fails the parse with InvalidEapi carrying the value.            *)
C6_EapiResolution ==
    (op = "cache" /\ pc = "parsed") =>
        /\ (~HasLine(rec, Key.EAPI) /\ res.ok) =>
              /\ res.val.eapi = EapiZero
              /\ ~has_bdepend(res.val.eapi)
              /\ ~has_idepend(res.val.eapi)
              /\ ~has_required_use(res.val.eapi)
              /\ ~has_at_most_one_of(res.val.eapi)
              /\ ~has_src_prepare(res.val.eapi)
              /\ ~has_pkg_pretend(res.val.eapi)
              /\ ~has_src_uri_arrows(res.val.eapi)
              /\ ~has_slot_operators(res.val.eapi)
              /\ ~has_properties(res.val.eapi)
              /\ ~has_use_conditional_restrict(res.val.eapi)
              /\ ~has_selective_uri_restrictions(res.val.eapi)
        /\ (HasLine(rec, Key.EAPI) /\ IsEapiValue(LastValue(rec, Key.EAPI)) /\ res.ok)
              => <<"0", "1", "2", "3", "4", "5", "6", "7", "8", "9">>[res.val.eapi + 1]
                    = LastValue(rec, Key.EAPI)[1]
        /\ (HasLine(rec, Key.EAPI) /\ ~IsEapiValue(LastValue(rec, Key.EAPI)))
              => SameResult(res, Err("InvalidEapi", LastValue(rec, Key.EAPI)))

\* a record with the line EAPI=7 was parsed, to version 7
C6_Witness ==
    /\ op = "cache"
    /\ pc = "parsed"
    /\ HasLine(rec, Key.EAPI)
    /\ res.ok
    /\ res.val.eapi = 7

-----------------------------------------------------------------------------
(* C7. Sentinel phases.  What the record parser is expected to return for a  *)
(* record whose other lines are fine, given which DEFINED_PHASES values      *)
(* count as "no phases": the phases of the tokens in the order given, or     *)
(* InvalidPhase with the first token that names no phase.                    *)
PhasesExpected(r, sentinel) ==
    LET v == LastValue(r, Key.DEFINED_PHASES)
        tokens == split_whitespace(v)
        named == [k \in 1..Len(tokens) |-> Phase_from_str(tokens[k])]
        unknown == {k \in 1..Len(tokens) : ~named[k].ok}
    IN  IF ~HasLine(r, Key.DEFINED_PHASES) THEN <<TRUE, <<>>>>
        ELSE IF sentinel THEN <<TRUE, <<>>>>
        ELSE IF unknown = {} THEN <<TRUE, [k \in 1..Len(tokens) |-> named[k].val]>>
        ELSE <<FALSE, tokens[CHOOSE k \in unknown : \A j \in unknown : k <= j]>>

PhasesAsExpected(r, sentinel) ==
    LET e == PhasesExpected(r, sentinel)
    IN  IF e[1] THEN res.ok /\ res.val.defined_phases = e[2]
        ELSE SameResult(res, Err("InvalidPhase", e[2]))

\* the lines of r other than DEFINED_PHASES make a record that parses
OtherLinesFine(r) == CacheEntry_parse(RecordText(WithoutKey(r, Key.DEFINED_PHASES))).ok

(* C7 as claimed: the values "-" and "" and a missing line give the empty    *)
(* list, and every other value is split on whitespace into phase names.      *)
C7_AsClaimed ==
    (op = "cache" /\ pc = "parsed" /\ OtherLinesFine(rec)) =>
        PhasesAsExpected(rec, LastValue(rec, Key.DEFINED_PHASES) \in {<<"-">>, <<>>})

(* C7, amended: a DEFINED_PHASES value that is "-" or empty once the         *)
(* whitespace around it is trimmed, and a missing line, give the empty list; *)
(* every other value is split on whitespace and gives the phases in the      *)
(* order given, or InvalidPhase if a token names no phase.                   *)
C7_SentinelPhases ==
    (op = "cache" /\ pc = "parsed" /\ OtherLinesFine(rec)) =>
        PhasesAsExpected(rec, Trim(LastValue(rec, Key.DEFINED_PHASES)) \in {<<"-">>, <<>>})

\* a record with two phases was parsed, and the phases are in the order given
C7_Witness ==
    /\ op = "cache"
    /\ pc = "parsed"
    /\ res.ok
    /\ res.val.defined_phases = <<"SrcTest", "PkgInfo">>

-----------------------------------------------------------------------------
(* C8. Eclass pairing: the tab-separated tokens of the value are paired two  *)
(* at a time in order; 2k tokens give k pairs, 2k+1 tokens the first k       *)
(* pairs, the empty string no pair; there is no error.                       *)

\* the positions of the tabs of s, and the number of tokens they separate
TabsOf(s) == {j \in 1..Len(s) : s[j] = "\t"}
TokenCount(s) == Cardinality(TabsOf(s)) + 1

\* the n-th token of s: what stands between the (n-1)-th and the n-th tab
TokenOf(s, n) ==
    LET before == {j \in TabsOf(s) : Cardinality({i \in TabsOf(s) : i <= j}) = n - 1}
        after  == {j \in TabsOf(s) : Cardinality({i \in TabsOf(s) : i <= j}) = n}
        from == IF before = {} THEN 1 ELSE 1 + CHOOSE j \in before : TRUE
        to   == IF after = {} THEN Len(s) ELSE (CHOOSE j \in after : TRUE) - 1
    IN  SubSeq(s, from, to)

C8_EclassPairing ==
    (op = "eclasses" /\ pc = "parsed") =>
        /\ res.ok
        /\ input = <<>> => res.val = <<>>
        /\ input # <<>> =>
              /\ Len(res.val) = TokenCount(input) \div 2
              /\ \A k \in 1..Len(res.val) :
                    res.val[k] = <<TokenOf(input, 2 * k - 1), TokenOf(input, 2 * k)>>

\* three tokens were parsed, to one pair
C8_Witness ==
    /\ op = "eclasses"
    /\ pc = "parsed"
    /\ TokenCount(input) = 3
    /\ Len(res.val) = 1
    /\ res.val[1][1] # <<>>

-----------------------------------------------------------------------------
(* C9. Every non-empty line must contain '=': a record with a non-empty      *)
(* line that has none fails with InvalidCacheEntry.                          *)
C9_MalformedLineFails ==
    (op = "cache" /\ pc = "parsed"
        /\ \E k \in 1..Len(rec) : ~rec[k].eq /\ Trim(rec[k].key) # <<>>)
        => (~res.ok /\ res.err = "InvalidCacheEntry")

-----------------------------------------------------------------------------
(* C10. Unknown keys and blank lines are ignored: putting a blank line, or a *)
(* KEY=VALUE line whose key is none of the known keys, anywhere in a record  *)
(* does not change what CacheEntry::parse returns, a record or an error.     *)
C10_IgnoredLines ==
    [][(pc = "parsed" /\ pc' = "edited") => SameResult(res', res)]_vars

\* a line with the key eapi was put between the lines of a record that parses
C10_Witness ==
    /\ op = "cache"
    /\ pc = "edited"
    /\ res.ok
    /\ \E k \in 2..(Len(rec) - 1) : rec[k].key = <<"e", "a", "p", "i">>

-----------------------------------------------------------------------------
(* C11. Last-writer-wins: when a recognised key occurs on several lines of a *)
(* record, CacheEntry::parse returns what it returns with the earlier lines  *)
(* of that key taken out, whether they were valid or not; and the value of a *)
(* line is everything after its first '=', so a description written a=b is   *)
(* the description a=b.                                                      *)
C11_LastWriterWins ==
    /\ [][(pc = "parsed" /\ pc' = "edited") => SameResult(res', res)]_vars
    /\ [](pc = "parsed" /\ res.ok /\ HasLine(rec, Key.DESCRIPTION)
            => res.val.description = LastValue(rec, Key.DESCRIPTION))

\* an invalid SLOT line and a description without '=' were overridden, and the
\* record parsed has the slot and the description of the last lines
C11_Witness ==
    /\ pc = "edited"
    /\ rec = <<[key |-> Key.SLOT, eq |-> TRUE, value |-> <<"0">>],
               [key |-> Key.DESCRIPTION, eq |-> TRUE, value |-> <<"a", "=", "b">>]>>
    /\ res.ok
    /\ res.val.description = <<"a", "=", "b">>
    /\ res.val.slot = Slot_new(<<"0">>)

-----------------------------------------------------------------------------
(* C12. Canonical serialization order: serialize writes the lines of a       *)
(* record in the fixed key order DEFINED_PHASES, DEPEND, DESCRIPTION, EAPI,  *)
(* HOMEPAGE, IUSE, KEYWORDS, LICENSE, PDEPEND, RDEPEND, REQUIRED_USE,        *)
(* RESTRICT, SLOT, SRC_URI, BDEPEND, IDEPEND, PROPERTIES, INHERITED,         *)
(* _eclasses_, _md5_, each key at most once and whatever the order of the    *)
(* lines the record was parsed from; DEFINED_PHASES (as '-' for the empty    *)
(* list), DESCRIPTION, EAPI and SLOT are always written, and the output ends *)
(* with a line feed after its last line.                                     *)

CanonicalOrder ==
    <<Key.DEFINED_PHASES, Key.DEPEND, Key.DESCRIPTION, Key.EAPI, Key.HOMEPAGE, Key.IUSE,
      Key.KEYWORDS, Key.LICENSE, Key.PDEPEND, Key.RDEPEND, Key.REQUIRED_USE, Key.RESTRICT,
      Key.SLOT, Key.SRC_URI, Key.BDEPEND, Key.IDEPEND, Key.PROPERTIES, Key.INHERITED,
      Key.eclasses, Key.md5>>

AlwaysWritten == {Key.DEFINED_PHASES, Key.DESCRIPTION, Key.EAPI, Key.SLOT}

\* the lines of a text in which every line ends with a line feed
LinesOf(t) == LET parts == Split(t, "\n") IN SubSeq(parts, 1, Len(parts) - 1)

\* the key of a written line: what stands before its first '='
KeyOf(line) == Slice(line, 1, FirstAt(line, 1, "="))

\* the value of a written line: what stands after its first '='
ValueOf(line) == SubSeq(line, FirstAt(line, 1, "=") + 1, Len(line))

\* the keys of CanonicalOrder that are in the set K, in that order
OrderedKeys(K) ==
    LET RECURSIVE pick(_)
        pick(k) == IF k > Len(CanonicalOrder) THEN <<>>
                   ELSE (IF CanonicalOrder[k] \in K THEN <<CanonicalOrder[k]>> ELSE <<>>)
                        \o pick(k + 1)
    IN  pick(1)

C12_CanonicalOrder ==
    pc = "rendered" =>
        LET lines == LinesOf(text)
            keys == [k \in 1..Len(lines) |-> KeyOf(lines[k])]
        IN  /\ text # <<>> /\ text[Len(text)] = "\n"
            /\ \A k \in 1..Len(lines) : FirstAt(lines[k], 1, "=") <= Len(lines[k])
            /\ keys = OrderedKeys(AlwaysWritten \cup {rec[k].key : k \in 1..Len(rec)})
            /\ ~HasLine(rec, Key.DEFINED_PHASES) => ValueOf(lines[1]) = <<"-">>

\* PROPERTIES, written before DEPEND and after the slot, comes out after them,
\* and the phases of a record without a DEFINED_PHASES line are written as '-'
C12_Witness ==
    /\ pc = "rendered"
    /\ [k \in 1..Len(rec) |-> rec[k].key]
         = <<Key.SLOT, Key.PROPERTIES, Key.DEPEND, Key.md5, Key.DESCRIPTION>>
    /\ text = Flatten([k \in 1..7 |->
                <<Line(Key.DEFINED_PHASES, <<"-">>), Line(Key.DEPEND, <<"a", "/", "b">>),
                  Line(Key.DESCRIPTION, <<"d">>), Line(Key.EAPI, <<"0">>),
                  Line(Key.SLOT, <<"0">>), Line(Key.PROPERTIES, <<"a">>),
                  Line(Key.md5, <<"a">>)>>[k] \o <<"\n">>])

-----------------------------------------------------------------------------
(* C13. No present-but-empty optional field: the serialization of a record   *)
(* returned by CacheEntry::parse has no line KEY= with an empty value for an *)
(* optional key (every key but DEFINED_PHASES, DESCRIPTION, EAPI and SLOT);  *)
(* an optional field whose content is empty is left out.                     *)
C13_NoEmptyOptionalLine ==
    pc = "rendered" =>
        \A k \in 1..Len(LinesOf(text)) :
            KeyOf(LinesOf(text)[k]) \in KnownKeys \ AlwaysWritten
                => ValueOf(LinesOf(text)[k]) # <<>>

-----------------------------------------------------------------------------
(* C14. Total consumption: each of LicenseExpr::parse, RequiredUseExpr::parse, *)
(* RestrictExpr::parse and SrcUriEntry::parse succeeds only if the whole     *)
(* input is read as whitespace-separated entries. An input with a ')' that   *)
(* closes nothing, with a '(' left open, or with a character that no token   *)
(* of the grammar has, is refused with the error of the grammar, and no      *)
(* result is built from the part before it.                                  *)

\* the characters that the tokens of each grammar are written with
GrammarAlphabet ==
    [license      |-> LicenseChars \cup LicenseFlagChars \cup {"|", "?", "!"},
     required_use |-> RequiredUseFlagChars \cup {"|", "^", "?", "!"},
     restrict     |-> RestrictTokenChars \cup RestrictFlagChars \cup {"?", "!"},
     src_uri      |-> UriChars \cup SrcUriFlagChars \cup {"!", ">"}]

\* the error of each grammar
GrammarError ==
    [license |-> "InvalidLicense", required_use |-> "InvalidRequiredUse",
     restrict |-> "InvalidRestrict", src_uri |-> "InvalidSrcUri"]

\* the parentheses open after the first k characters of s
Depth(s, k) == Cardinality({j \in 1..k : s[j] = "("}) - Cardinality({j \in 1..k : s[j] = ")"})

Balanced(s) == Depth(s, Len(s)) = 0 /\ \A k \in 1..Len(s) : Depth(s, k) >= 0

C14_TotalConsumption ==
    pc = "parsed" =>
        /\ res.ok => /\ Balanced(input)
                      /\ \A k \in 1..Len(input) :
                            input[k] \in GrammarAlphabet[op] \cup MultispaceChars \cup {"(", ")"}
        /\ ~res.ok => res.err = GrammarError[op] /\ res.val = <<>>

\* a token is read and then a ')' that closes nothing: RESTRICT refuses the text
C14_Witness ==
    /\ pc = "parsed"
    /\ op = "restrict"
    /\ input = <<"a", " ", ")">>
    /\ res = Err("InvalidRestrict", <<>>)

-----------------------------------------------------------------------------
(* C15. Absent equals empty: for every recognised key other than EAPI,       *)
(* DESCRIPTION and SLOT, _md5_ and _eclasses_ included, a record with the    *)
(* line KEY= (an empty value) parses to the same result as the record        *)
(* without that line.                                                        *)
C15_AbsentEqualsEmpty ==
    [][(pc = "parsed" /\ pc' = "edited" /\ Len(rec') = Len(rec) + 1)
          => SameResult(res', res)]_vars

-----------------------------------------------------------------------------
(* C16. License name start characters: LicenseExpr::parse fails on every     *)
(* input with a license-name token, at top level or inside a '||' or         *)
(* USE-conditional group, whose first character is '-', '.' or '+'; a name   *)
(* that has those characters only after its first one, like GPL-2+, is       *)
(* accepted as that name.                                                    *)

\* what separates the tokens of a LICENSE text
NameDelimiters == MultispaceChars \cup {"(", ")", "|"}

\* a token of s starts at i: a character that is no delimiter, at the start of s
\* or after a delimiter
TokenStart(s, i) ==
    /\ s[i] \notin NameDelimiters
    /\ i = 1 \/ s[i - 1] \in NameDelimiters

\* the position after the token of s that starts at i
TokenEnd(s, i) ==
    LET stops == {j \in i..Len(s) : s[j] \in NameDelimiters}
    IN  IF stops = {} THEN Len(s) + 1 ELSE CHOOSE j \in stops : \A k \in stops : j <= k

\* the token of s at i is written with the characters of license names only
NameToken(s, i) ==
    TokenStart(s, i) /\ \A j \in i..(TokenEnd(s, i) - 1) : s[j] \in {"a", "+", "-", "."}

C16_NameStart ==
    pc = "parsed" =>
        /\ (\E i \in 1..Len(input) : NameToken(input, i) /\ input[i] \in {"-", ".", "+"})
              => ~res.ok
        /\ (/\ input # <<>>
            /\ NameToken(input, 1)
            /\ TokenEnd(input, 1) = Len(input) + 1
            /\ input[1] \notin {"-", ".", "+"})
              => res = Ok(License(input))

\* a name with '+' first, inside an any-of group, is refused
C16_Witness ==
    /\ pc = "parsed"
    /\ input = <<"|", "|", "(", "+", "a", ")">>
    /\ ~res.ok

-----------------------------------------------------------------------------
(* C17. Committed group errors: in every grammar, once the head of a USE     *)
(* conditional ('!' or not, one or more flag characters, '?') or a group     *)
(* operator ('||', '^^', '??') has been read, a missing '(' or a missing ')' *)
(* makes the whole parse fail with the error of the grammar; the text is not *)
(* read as an atom instead, and no shortened result is returned. This holds  *)
(* in SRC_URI too, where '?' is also a character of URIs.                    *)

\* the flag characters and the group operators of each grammar
GrammarFlagChars ==
    [license |-> LicenseFlagChars, required_use |-> RequiredUseFlagChars,
     restrict |-> RestrictFlagChars, src_uri |-> SrcUriFlagChars]

GrammarOperators ==
    [license |-> {<<"|", "|">>},
     required_use |-> {<<"|", "|">>, <<"^", "^">>, <<"?", "?">>},
     restrict |-> {}, src_uri |-> {}]

\* an entry of s can start at i: at the start of s, after whitespace or after a
\* parenthesis
EntryStart(s, i) == i = 1 \/ s[i - 1] \in MultispaceChars \cup {"(", ")"}

\* the '?' at q ends the head of a USE conditional of grammar g that starts at i
HeadAt(g, s, i, q) ==
    LET f == IF s[i] = "!" THEN i + 1 ELSE i
    IN  /\ EntryStart(s, i)
        /\ f < q
        /\ s[q] = "?"
        /\ \A j \in f..(q - 1) : s[j] \in GrammarFlagChars[g]

\* a group operator of grammar g stands at i and ends at q
OperatorAt(g, s, i, q) ==
    /\ EntryStart(s, i)
    /\ q = i + 1
    /\ SubSeq(s, i, q) \in GrammarOperators[g]

\* no '(' follows the position q of s, whitespace apart
NoGroupAfter(s, q) == ~IsAt(s, TakeWhileEnd(s, q + 1, MultispaceChars), "(")

\* a head or an operator of grammar g is in s, and its '(' or a ')' is missing
GroupBroken(g, s) ==
    \E i \in 1..Len(s), q \in 1..Len(s) :
        /\ HeadAt(g, s, i, q) \/ OperatorAt(g, s, i, q)
        /\ NoGroupAfter(s, q) \/ ~Balanced(s)

C17_CommittedGroups ==
    (pc = "parsed" /\ GroupBroken(op, input)) => res = Err(GrammarError[op], <<>>)

\* SRC_URI: a? without its group is refused, and is not read as the URI a?
C17_Witness ==
    /\ pc = "parsed"
    /\ op = "src_uri"
    /\ input = <<"a", "?">>
    /\ res = Err("InvalidSrcUri", <<>>)

-----------------------------------------------------------------------------
(* C18. Canonical SRC_URI atoms render back identically: for an atom written *)
(* as [fetch+|mirror+]url or [fetch+|mirror+]url -> target, with single      *)
(* spaces around '->', SrcUriEntry::parse stores the marker without its '+'  *)
(* as the restriction and the URL without the marker, gives a Renamed with   *)
(* the target as written when '->' is there and a Uri otherwise, and the     *)
(* Display of the parsed entry is the input text.                            *)

\* the marker s starts with, if any
MarkerOf(s) == IF LitAt(s, 1, Fetch \o <<"+">>) THEN Some(Fetch)
               ELSE IF LitAt(s, 1, Mirror \o <<"+">>) THEN Some(Mirror)
               ELSE None

\* s after its marker
AfterMarker(s) == IF MarkerOf(s) = None THEN s
                  ELSE SubSeq(s, Len(MarkerOf(s)[1]) + 2, Len(s))

\* the position of the first " -> " of b, Len(b) + 1 when there is none
ArrowAt(b) ==
    LET at == {k \in 1..Len(b) : LitAt(b, k, <<" ", "-", ">", " ">>)}
    IN  IF at = {} THEN Len(b) + 1 ELSE CHOOSE k \in at : \A j \in at : k <= j

UrlOf(s) == SubSeq(AfterMarker(s), 1, ArrowAt(AfterMarker(s)) - 1)

HasTarget(s) == ArrowAt(AfterMarker(s)) <= Len(AfterMarker(s))

TargetOf(s) == SubSeq(AfterMarker(s), ArrowAt(AfterMarker(s)) + 4, Len(AfterMarker(s)))

\* s is one atom in canonical writing: a marker or none, a URL of URI characters,
\* and ' -> ' with a target of filename characters or nothing
CanonicalAtom(s) ==
    /\ UrlOf(s) # <<>>
    /\ \A k \in 1..Len(UrlOf(s)) : UrlOf(s)[k] \in UriChars
    /\ HasTarget(s) => /\ TargetOf(s) # <<>>
                       /\ \A k \in 1..Len(TargetOf(s)) : TargetOf(s)[k] \in FilenameChars

\* s starts like a USE conditional: flag characters, then '?'
HeadLike(s) ==
    \E q \in 2..Len(s) : s[q] = "?" /\ \A j \in 1..(q - 1) : s[j] \in SrcUriFlagChars

\* the input was parsed to the one entry it is written as, and written back
AtomReadBack ==
    /\ res.ok
    /\ Len(res.val) = 1
    /\ res.val[1].kind = (IF HasTarget(input) THEN "Renamed" ELSE "Uri")
    /\ res.val[1].restriction = MarkerOf(input)
    /\ res.val[1].url = UrlOf(input)
    /\ HasTarget(input) => res.val[1].file = TargetOf(input)
    /\ pc = "rendered" => text = input

\* C18 as it is stated: every canonical atom is read back
C18_AsClaimed ==
    (pc \in {"parsed", "rendered"} /\ CanonicalAtom(input)) => AtomReadBack

(* C18, amended: the same, for the atoms that do not start with flag          *)
(* characters followed by '?'; those are committed to a USE conditional and   *)
(* refused (C17).                                                             *)
C18_CanonicalAtoms ==
    (pc \in {"parsed", "rendered"} /\ CanonicalAtom(input) /\ ~HeadLike(input))
        => AtomReadBack

\* mirror+a -> a is a Renamed of a to a, restricted to mirrors, and is written back
\* as it was
C18_Witness ==
    /\ pc = "rendered"
    /\ input = Mirror \o <<"+", "a", " ", "-", ">", " ", "a">>
    /\ res = Ok(<<SrcUriRenamed(<<"a">>, <<"a">>, Some(Mirror))>>)
    /\ text = input

-----------------------------------------------------------------------------
(* C19. Version gating is not enforced: two records that differ only in the  *)
(* value of a valid EAPI line, or in whether they have one, are both         *)
(* accepted or both refused by CacheEntry::parse, and the two records agree  *)
(* on every field but eapi. In particular a '??' group in REQUIRED_USE, a    *)
(* USE-conditional RESTRICT, a fetch+ SRC_URI, BDEPEND and IDEPEND are       *)
(* accepted under EAPI 0.                                                    *)

\* both fail, or both succeed with records that differ in eapi at most
SameButEapi(a, b) ==
    /\ a.ok = b.ok
    /\ a.ok => [a.val EXCEPT !.eapi = EapiZero] = [b.val EXCEPT !.eapi = EapiZero]

\* the lines of r are lines that parse, a description and a slot among them, and
\* r is of EAPI 0
ValidUnderZero(r) ==
    /\ HasLine(r, Key.DESCRIPTION)
    /\ HasLine(r, Key.SLOT)
    /\ ~HasLine(r, Key.LICENSE)
    /\ HasLine(r, Key.EAPI) => LastValue(r, Key.EAPI) = <<"0">>

C19_NoVersionGating ==
    /\ [][(pc = "parsed" /\ pc' = "edited") => SameButEapi(res', res)]_vars
    /\ [](pc \in {"parsed", "edited"} /\ ValidUnderZero(rec) =>
            /\ res.ok
            /\ res.val.eapi = EapiZero
            /\ HasLine(rec, Key.REQUIRED_USE) =>
                  res.val.required_use
                    = Some(RequiredUseAtMostOne(<<RequiredUseFlag(<<"a">>, FALSE)>>))
            /\ HasLine(rec, Key.RESTRICT) => res.val.restrict # <<>>
            /\ HasLine(rec, Key.SRC_URI) => res.val.src_uri[1].restriction = Some(Fetch)
            /\ HasLine(rec, Key.BDEPEND) => res.val.bdepend # <<>>
            /\ HasLine(rec, Key.IDEPEND) => res.val.idepend # <<>>)

\* a record with BDEPEND was given the line EAPI=0 and is still accepted, with the
\* same build-host dependencies
C19_Witness ==
    /\ pc = "edited"
    /\ HasLine(rec, Key.BDEPEND)
    /\ HasLine(rec, Key.EAPI) /\ LastValue(rec, Key.EAPI) = <<"0">>
    /\ res.ok
    /\ res.val.bdepend = <<<<"a", "/", "b">>>>

-----------------------------------------------------------------------------
(* C20. Top-level wrapping in LICENSE and REQUIRED_USE: parse returns        *)
(* All([]) for an input with no top-level entry (empty, or whitespace only), *)
(* the entry itself, without All around it, for exactly one top-level entry, *)
(* and All(entries) in the order of the input for two or more; for the empty *)
(* input RestrictExpr::parse and SrcUriEntry::parse return the empty list.   *)

\* the leaf of a tree grammar for the name t
TreeAtom(g, t) == IF g = "license" THEN License(t) ELSE RequiredUseFlag(t, FALSE)

\* the All node of a tree grammar
TreeAll(g, es) == IF g = "license" THEN LicenseAll(es) ELSE RequiredUseAll(es)

\* s is written with letters and whitespace only: its entries are its words
OnlyWords(s) == \A k \in 1..Len(s) : s[k] \in Lower \cup MultispaceChars

C20_TopLevelWrapping ==
    pc = "parsed" =>
        /\ (op \in {"license", "required_use"} /\ OnlyWords(input)) =>
              LET words == split_whitespace(input)
              IN  res = Ok(IF Len(words) = 1 THEN TreeAtom(op, words[1])
                           ELSE TreeAll(op, [k \in 1..Len(words) |-> TreeAtom(op, words[k])]))
        /\ (op \in {"license", "required_use"} /\ res.ok /\ res.val.kind = "All")
              => Len(res.val.entries) # 1
        /\ (op \in {"restrict", "src_uri"} /\ input = <<>>) => res = Ok(<<>>)

\* two names give All of the two, in the order they were written
C20_Witness ==
    /\ pc = "parsed"
    /\ op = "license"
    /\ input = <<"a", " ", "a", "a">>
    /\ res = Ok(LicenseAll(<<License(<<"a">>), License(<<"a", "a">>)>>))

-----------------------------------------------------------------------------
(* C21. Restrict bare-group collapse: in RESTRICT/PROPERTIES a bare          *)
(* parenthesized group with exactly one child is replaced by that child, and *)
(* one with more than one child by the single placeholder Token(""); its     *)
(* children are dropped, the text is not refused and the children are not    *)
(* put into the enclosing list.                                              *)

\* s is written with token characters and whitespace only
OnlyTokens(s) == \A k \in 1..Len(s) : s[k] \in RestrictTokenChars \cup MultispaceChars

\* the Token nodes of the words of s
TokensOf(s) == [k \in 1..Len(split_whitespace(s)) |-> RestrictToken(split_whitespace(s)[k])]

\* s is tokens, one bare group of one or more tokens, and tokens
OneBareGroup(s) ==
    LET o == FirstAt(s, 1, "(")
        c == FirstAt(s, 1, ")")
    IN  /\ o < c /\ c <= Len(s)
        /\ OnlyTokens(SubSeq(s, 1, o - 1))
        /\ OnlyTokens(SubSeq(s, o + 1, c - 1))
        /\ OnlyTokens(SubSeq(s, c + 1, Len(s)))
        /\ Len(split_whitespace(SubSeq(s, o + 1, c - 1))) >= 1

\* what the claim gives for such a text
CollapseExpected(s) ==
    LET o == FirstAt(s, 1, "(")
        c == FirstAt(s, 1, ")")
        children == TokensOf(SubSeq(s, o + 1, c - 1))
    IN  TokensOf(SubSeq(s, 1, o - 1))
        \o <<IF Len(children) = 1 THEN children[1] ELSE RestrictToken(<<>>)>>
        \o TokensOf(SubSeq(s, c + 1, Len(s)))

C21_BareGroupCollapse ==
    (pc = "parsed" /\ OneBareGroup(input)) => res = Ok(CollapseExpected(input))

\* a group of two tokens is one placeholder, not two tokens and not an error
C21_Witness ==
    /\ pc = "parsed"
    /\ input = <<"(", "a", " ", ".", ")">>
    /\ res = Ok(<<RestrictToken(<<>>)>>)

-----------------------------------------------------------------------------
(* C22. flat_tokens returns, from left to right, the strings of the Token    *)
(* nodes of the entries, every UseConditional being replaced by the flat     *)
(* tokens of its children; the result does not depend on a flag name or on a *)
(* negation, and it is as long as the trees have Token nodes.                *)

\* the number of Token nodes of a list of entries
RECURSIVE CountTokens(_)
CountTokens(es) ==
    IF es = <<>> THEN 0
    ELSE (IF Head(es).kind = "Token" THEN 1 ELSE CountTokens(Head(es).entries))
         + CountTokens(Tail(es))

\* every '(' of s is the group of a USE conditional: a '?' stands before it,
\* whitespace apart
NoBareGroup(s) ==
    \A k \in 1..Len(s) : s[k] = "(" =>
        \E q \in 1..(k - 1) : s[q] = "?" /\ \A j \in (q + 1)..(k - 1) : s[j] \in MultispaceChars

\* the words of s, its parentheses taken for spaces
WordsOf(s) ==
    split_whitespace([k \in 1..Len(s) |-> IF s[k] \in {"(", ")"} THEN " " ELSE s[k]])

\* w is the head of a USE conditional: '!' or not, flag characters, '?'
HeadWord(w) ==
    LET f == IF w[1] = "!" THEN 2 ELSE 1
    IN  /\ f < Len(w)
        /\ w[Len(w)] = "?"
        /\ \A k \in f..(Len(w) - 1) : w[k] \in RestrictFlagChars

\* w is a token
TokenWord(w) == \A k \in 1..Len(w) : w[k] \in RestrictTokenChars

\* s is written as tokens and USE conditionals set apart by whitespace or
\* parentheses, every '(' being the group of a USE conditional
PlainlyWritten(s) ==
    /\ NoBareGroup(s)
    /\ \A k \in 1..Len(WordsOf(s)) : HeadWord(WordsOf(s)[k]) \/ TokenWord(WordsOf(s)[k])

\* the words of s that are tokens
PlainWords(s) == SelectSeq(WordsOf(s), TokenWord)

C22_FlatTokens ==
    pc = "rendered" =>
        /\ Len(text) = CountTokens(res.val)
        /\ PlainlyWritten(input) => text = PlainWords(input)

\* a token, and a token under a negated USE conditional: both are returned, in
\* that order, without the flag
C22_Witness ==
    /\ pc = "rendered"
    /\ input = <<".", " ", "!", "a", "?", "(", "a", ")">>
    /\ text = <<<<".">>, <<"a">>>>

-----------------------------------------------------------------------------
(* C23. Derived filename: for every SRC_URI atom parsed without a rename     *)
(* target, the stored filename is the text of the url after its last '/'     *)
(* (the whole url when it has no '/'), cut at the first '?' of that text     *)
(* when it has one; the filename is a function of the url alone.             *)

\* the text of u after its last '/'
LastSegment(u) ==
    LET slashes == {j \in 1..Len(u) : u[j] = "/"}
    IN  IF slashes = {} THEN u
        ELSE SubSeq(u, (CHOOSE j \in slashes : \A k \in slashes : k <= j) + 1, Len(u))

\* t up to its first '?'
BeforeQuery(t) ==
    IF \E j \in 1..Len(t) : t[j] = "?"
    THEN SubSeq(t, 1, (CHOOSE j \in 1..Len(t) : t[j] = "?" /\ \A k \in 1..(j - 1) : t[k] # "?") - 1)
    ELSE t

C23_DerivedFilename ==
    (pc = "parsed" /\ res.ok) =>
        \A k \in 1..Len(res.val) :
            res.val[k].kind = "Uri" =>
                res.val[k].file = BeforeQuery(LastSegment(res.val[k].url))

\* the url /a?a has the filename a: what follows the '/', without the query
C23_Witness ==
    /\ pc = "parsed"
    /\ input = <<"/", "a", "?", "a">>
    /\ res = Ok(<<SrcUriUri(<<"/", "a", "?", "a">>, <<"a">>, None)>>)

-----------------------------------------------------------------------------
(* C24. Depth: the parsed tree is never deeper than the brackets of the       *)
(* input (its depth is the largest number of nested group nodes from the     *)
(* top level to a leaf, the All of the top level not counted), and in        *)
(* SRC_URI, which keeps bare groups as Group nodes, the two are equal.       *)
(* In LICENSE, REQUIRED_USE and RESTRICT a bare group leaves no node, so     *)
(* the equality stated for all four grammars does not hold there.            *)

RECURSIVE NestedGroups(_)
\* the largest number of nested group nodes in a list of entries
NestedGroups(entries) ==
    IF entries = <<>> THEN 0
    ELSE LET here(e) == IF e.kind \in {"License", "Flag", "Token", "Uri", "Renamed"} THEN 0
                        ELSE 1 + NestedGroups(e.entries)
             max(a, b) == IF a >= b THEN a ELSE b
         IN  max(here(Head(entries)), NestedGroups(Tail(entries)))

\* the depth of a parse result: a list of entries, or one expression whose
\* top-level All stands for the list
TreeDepth(g, v) ==
    IF g \in {"restrict", "src_uri"} THEN NestedGroups(v)
    ELSE IF v.kind = "All" THEN NestedGroups(v.entries)
    ELSE NestedGroups(<<v>>)

\* the largest number of parentheses open at once in s
BracketDepth(s) ==
    LET ds == {Depth(s, k) : k \in 0..Len(s)}
    IN  CHOOSE d \in ds : \A e \in ds : e <= d

\* the claim as stated: equality in each of the four grammars
C24_AsClaimed ==
    (pc = "parsed" /\ res.ok) => TreeDepth(op, res.val) = BracketDepth(input)

C24_DepthBound ==
    (pc = "parsed" /\ res.ok) =>
        /\ TreeDepth(op, res.val) <= BracketDepth(input)
        /\ op = "src_uri" => TreeDepth(op, res.val) = BracketDepth(input)

\* ((a)) in SRC_URI: two nested Group nodes for two nested brackets
C24_Witness ==
    /\ pc = "parsed"
    /\ op = "src_uri"
    /\ input = <<"(", "(", ")", ")">>
    /\ res = Ok(<<SrcUriGroup(<<SrcUriGroup(<<>>)>>)>>)

-----------------------------------------------------------------------------
(* C25. Whitespace before the child group: in LICENSE and REQUIRED_USE the   *)
(* whitespace between a group operator or the '?' of a USE conditional and   *)
(* the '(' of its group is optional; a text parses to the same result with   *)
(* that whitespace taken out, so '||(a)' is accepted as the group '|| (a)'   *)
(* is. The claim that such a text is not accepted does not hold.             *)

\* the position j of s is whitespace between a '?', '|' or '^' and a '('
BeforeGroup(s, j) ==
    LET before == {k \in 1..(j - 1) : s[k] \notin MultispaceChars}
        last   == CHOOSE k \in before : \A m \in before : m <= k
    IN  /\ s[j] \in MultispaceChars
        /\ IsAt(s, multispace0(s, j), "(")
        /\ before # {}
        /\ s[last] \in {"?", "|", "^"}

RECURSIVE SqueezeFrom(_, _)
SqueezeFrom(s, j) ==
    IF j > Len(s) THEN <<>>
    ELSE (IF BeforeGroup(s, j) THEN <<>> ELSE <<s[j]>>) \o SqueezeFrom(s, j + 1)

\* s without the whitespace that stands before a group
Squeeze(s) == SqueezeFrom(s, 1)

\* a USE-conditional head or an operator of grammar g with '(' right after it
TightGroup(g, s) ==
    \E i \in 1..Len(s), q \in 1..Len(s) :
        /\ HeadAt(g, s, i, q) \/ OperatorAt(g, s, i, q)
        /\ IsAt(s, q + 1, "(")

TreeParse(g, s) == IF g = "license" THEN LicenseExpr_parse(s) ELSE RequiredUseExpr_parse(s)

\* the claim as stated: no group without whitespace before '('
C25_AsClaimed ==
    (pc = "parsed" /\ op \in {"license", "required_use"} /\ TightGroup(op, input))
        => ~res.ok

C25_OptionalWhitespace ==
    (pc = "parsed" /\ op \in {"license", "required_use"})
        => res = TreeParse(op, Squeeze(input))

\* '|| (a)' and '||(a)' are the same any-of group
C25_Witness ==
    /\ pc = "parsed"
    /\ op = "license"
    /\ input = <<"|", "|", " ", "(", "a", ")">>
    /\ Squeeze(input) = <<"|", "|", "(", "a", ")">>
    /\ res = Ok(LicenseAnyOf(<<License(<<"a">>)>>))
    /\ LicenseExpr_parse(<<"|", "|", "(", "a", ")">>) = res

-----------------------------------------------------------------------------
(* C26. First-error ordering: CacheEntry::parse returns a record only when   *)
(* no field fails, and otherwise the error of the first failing field in     *)
(* the order EAPI, DESCRIPTION, SLOT, SRC_URI, LICENSE, KEYWORDS, IUSE,      *)
(* REQUIRED_USE, RESTRICT, PROPERTIES, DEPEND, RDEPEND, BDEPEND, PDEPEND,    *)
(* IDEPEND, DEFINED_PHASES, whatever the order of the lines; each field has  *)
(* its own error kind, RESTRICT and PROPERTIES both InvalidRestrict and      *)
(* every dependency key DepError.                                            *)

MaxErrorLines == 3

\* for each validated key a value its field parser refuses
BadValue == [k \in {Key.EAPI, Key.SLOT, Key.SRC_URI, Key.LICENSE, Key.KEYWORDS, Key.IUSE,
                    Key.REQUIRED_USE, Key.RESTRICT, Key.PROPERTIES, Key.DEPEND,
                    Key.RDEPEND, Key.BDEPEND, Key.PDEPEND, Key.IDEPEND,
                    Key.DEFINED_PHASES} |->
    IF k = Key.EAPI THEN <<"x">>
    ELSE IF k = Key.SLOT THEN <<>>
    ELSE IF k \in {Key.SRC_URI, Key.REQUIRED_USE, Key.RESTRICT, Key.PROPERTIES} THEN <<"(">>
    ELSE IF k = Key.LICENSE THEN <<"+">>
    ELSE IF k = Key.KEYWORDS THEN <<"~">>
    ELSE IF k = Key.IUSE THEN <<"+">>
    ELSE IF k = Key.DEFINED_PHASES THEN <<"x">>
    ELSE <<"a">>]

CacheErrorLines ==
    {[key |-> k, eq |-> TRUE, value |-> BadValue[k]] : k \in DOMAIN BadValue}
    \cup {[key |-> Key.DESCRIPTION, eq |-> TRUE, value |-> <<"d">>],
          [key |-> Key.SLOT, eq |-> TRUE, value |-> <<"0">>]}

\* records of refused lines in any order, alone or before the two mandatory lines
InitCacheErrors ==
    /\ op = "cache"
    /\ \E ls \in SeqsUpTo(CacheErrorLines, MaxErrorLines) :
       \E base \in {<<>>, <<[key |-> Key.DESCRIPTION, eq |-> TRUE, value |-> <<"d">>],
                             [key |-> Key.SLOT, eq |-> TRUE, value |-> <<"0">>]>>} :
          rec = ls \o base
    /\ input = RecordText(rec)
    /\ Start

NextCacheErrors == CacheParse

SpecCacheErrors == InitCacheErrors /\ [][NextCacheErrors]_vars

\* the order in which the fields are validated
ValidationOrder ==
    <<Key.EAPI, Key.DESCRIPTION, Key.SLOT, Key.SRC_URI, Key.LICENSE, Key.KEYWORDS,
      Key.IUSE, Key.REQUIRED_USE, Key.RESTRICT, Key.PROPERTIES, Key.DEPEND, Key.RDEPEND,
      Key.BDEPEND, Key.PDEPEND, Key.IDEPEND, Key.DEFINED_PHASES>>

\* the error kind of each validated field
ErrorKindOf(k) ==
    IF k = Key.EAPI THEN "InvalidEapi"
    ELSE IF k \in {Key.DESCRIPTION, Key.SLOT} THEN "MissingField"
    ELSE IF k = Key.SRC_URI THEN "InvalidSrcUri"
    ELSE IF k = Key.LICENSE THEN "InvalidLicense"
    ELSE IF k = Key.KEYWORDS THEN "InvalidKeyword"
    ELSE IF k = Key.IUSE THEN "InvalidIUse"
    ELSE IF k = Key.REQUIRED_USE THEN "InvalidRequiredUse"
    ELSE IF k \in {Key.RESTRICT, Key.PROPERTIES} THEN "InvalidRestrict"
    ELSE IF k = Key.DEFINED_PHASES THEN "InvalidPhase"
    ELSE "DepError"

\* the field of key k fails in the record r: it is mandatory and has no line, or
\* the value in force (that of its last line) is the refused one
FieldFails(r, k) ==
    IF ~HasLine(r, k) THEN k \in {Key.DESCRIPTION, Key.SLOT}
    ELSE k \in DOMAIN BadValue /\ LastValue(r, k) = BadValue[k]

\* the positions in ValidationOrder of the failing fields of r
Failing(r) == {n \in 1..Len(ValidationOrder) : FieldFails(r, ValidationOrder[n])}

FirstFailing(r) == ValidationOrder[CHOOSE n \in Failing(r) : \A m \in Failing(r) : n <= m]

C26_FirstErrorOrdering ==
    pc = "parsed" =>
        /\ res.ok <=> Failing(rec) = {}
        /\ Failing(rec) # {} =>
              /\ res.err = ErrorKindOf(FirstFailing(rec))
              /\ res.err = "MissingField" => res.arg = FirstFailing(rec)

\* IDEPEND, PROPERTIES and KEYWORDS refused, written in that order: KEYWORDS is reported
C26_Witness ==
    /\ pc = "parsed"
    /\ rec = <<[key |-> Key.IDEPEND, eq |-> TRUE, value |-> <<"a">>],
               [key |-> Key.PROPERTIES, eq |-> TRUE, value |-> <<"(">>],
               [key |-> Key.KEYWORDS, eq |-> TRUE, value |-> <<"~">>],
               [key |-> Key.DESCRIPTION, eq |-> TRUE, value |-> <<"d">>],
               [key |-> Key.SLOT, eq |-> TRUE, value |-> <<"0">>]>>
    /\ Cardinality(Failing(rec)) = 3
    /\ ~res.ok
    /\ res.err = "InvalidKeyword"

-----------------------------------------------------------------------------
(* C27. Slot mini-grammar: a SLOT value without '/' gives a slot with no     *)
(* subslot; a value with '/' is split at its first '/' into the slot (the    *)
(* text before) and the subslot (all the text after, further '/' included);  *)
(* a SLOT line with an empty value fails with MissingField("SLOT"), as a     *)
(* record without a SLOT line does.                                          *)

MaxSlotLen == 4

SlotChars == {"0", "a", "/", "."}

\* a description and, or not, a SLOT line with a value over SlotChars
InitSlot ==
    /\ op = "cache"
    /\ \E v \in SeqsUpTo(SlotChars, MaxSlotLen), has \in BOOLEAN :
          rec = <<[key |-> Key.DESCRIPTION, eq |-> TRUE, value |-> <<"d">>]>>
                \o (IF has THEN <<[key |-> Key.SLOT, eq |-> TRUE, value |-> v]>> ELSE <<>>)
    /\ input = RecordText(rec)
    /\ Start

NextSlot == CacheParse

SpecSlot == InitSlot /\ [][NextSlot]_vars

\* the positions of '/' in v
Slashes(v) == {j \in 1..Len(v) : v[j] = "/"}

FirstSlash(v) == CHOOSE j \in Slashes(v) : \A k \in Slashes(v) : j <= k

C27_SlotGrammar ==
    pc = "parsed" =>
        IF ~HasLine(rec, Key.SLOT) \/ LastValue(rec, Key.SLOT) = <<>>
        THEN res = Err("MissingField", Key.SLOT)
        ELSE LET v == LastValue(rec, Key.SLOT)
             IN  /\ res.ok
                 /\ Slashes(v) = {} => res.val.slot = [slot |-> v, subslot |-> None]
                 /\ Slashes(v) # {} =>
                       res.val.slot = [slot |-> SubSeq(v, 1, FirstSlash(v) - 1),
                                       subslot |-> Some(SubSeq(v, FirstSlash(v) + 1, Len(v)))]

\* SLOT=0/a/: the slot is 0 and the subslot a/
C27_Witness ==
    /\ pc = "parsed"
    /\ HasLine(rec, Key.SLOT)
    /\ LastValue(rec, Key.SLOT) = <<"0", "/", "a", "/">>
    /\ res.ok
    /\ res.val.slot = [slot |-> <<"0">>, subslot |-> Some(<<"a", "/">>)]

-----------------------------------------------------------------------------
(* C28. Un-labelled groups keep their grouping in LICENSE and REQUIRED_USE:  *)
(* a bare parenthesized group nested inside an operator or USE-conditional   *)
(* group is a conjunction node (All) of its own in the parsed tree, so that  *)
(* '|| ( ( a b ) c )' and '|| ( a b c )' parse to different trees.           *)

\* the last character of s before k that is not whitespace is one of cs
PrecededBy(s, k, cs) ==
    LET before == {j \in 1..(k - 1) : s[j] \notin MultispaceChars}
        last   == CHOOSE j \in before : \A m \in before : m <= j
    IN  before # {} /\ s[last] \in cs

\* the '(' at j opens the group that encloses the position k
Encloses(s, j, k) ==
    /\ j < k
    /\ s[j] = "("
    /\ Depth(s, j) = Depth(s, k - 1)
    /\ \A m \in j..(k - 1) : Depth(s, m) >= Depth(s, j)

\* the '(' at k opens a bare group directly inside the group of an operator or
\* of a USE conditional
NestedBareGroupAt(s, k) ==
    /\ s[k] = "("
    /\ ~PrecededBy(s, k, {"?", "|", "^"})
    /\ \E j \in 1..(k - 1) : Encloses(s, j, k) /\ PrecededBy(s, j, {"?", "|", "^"})

RECURSIVE HasAllNode(_)
\* one of the entries, or a node below them, is an All
HasAllNode(entries) ==
    /\ entries # <<>>
    /\ \/ Head(entries).kind = "All"
       \/ HasAllNode(Head(entries).entries)
       \/ HasAllNode(Tail(entries))

C28_BareGroupsKept ==
    (pc = "parsed" /\ op \in {"license", "required_use"} /\ res.ok) =>
        ((\E k \in 1..Len(input) : NestedBareGroupAt(input, k))
            => HasAllNode(res.val.entries))

-----------------------------------------------------------------------------
(* C29. Serialized output is always re-parseable: for every record r that    *)
(* CacheEntry::parse returns, parsing r.serialize() succeeds and gives the   *)
(* same eapi, description, slot and defined_phases as r, whatever the        *)
(* optional fields hold: Token("") placeholders, empty trees, eclass pairs   *)
(* with empty components, an empty md5.                                      *)

MaxOddLines == 2

\* optional lines whose fields do not all render back to themselves
CacheOddLines == {
    [key |-> Key.EAPI, eq |-> TRUE, value |-> <<"8">>],
    [key |-> Key.RESTRICT, eq |-> TRUE, value |-> <<"(", " ", ")">>],
    [key |-> Key.RESTRICT, eq |-> TRUE, value |-> <<"(", "a", " ", "a", ")", " ", "b">>],
    [key |-> Key.PROPERTIES, eq |-> TRUE, value |-> <<"a", "?", "(", "(", ")", ")">>],
    [key |-> Key.LICENSE, eq |-> TRUE, value |-> <<"(", " ", ")">>],
    [key |-> Key.LICENSE, eq |-> TRUE, value |-> <<"|", "|", "(", ")">>],
    [key |-> Key.REQUIRED_USE, eq |-> TRUE, value |-> <<"(", ")">>],
    [key |-> Key.SRC_URI, eq |-> TRUE, value |-> <<"(", ")">>],
    [key |-> Key.SRC_URI, eq |-> TRUE, value |-> <<"a", "/", "?", "b">>],
    [key |-> Key.KEYWORDS, eq |-> TRUE, value |-> <<"-", "*", " ", "~", "a">>],
    [key |-> Key.IUSE, eq |-> TRUE, value |-> <<"+", "a">>],
    [key |-> Key.DEPEND, eq |-> TRUE, value |-> <<"a", "/", "b">>],
    [key |-> Key.DEFINED_PHASES, eq |-> TRUE, value |-> <<"t", "e", "s", "t", " ", "i", "n", "f", "o">>],
    [key |-> Key.eclasses, eq |-> TRUE, value |-> <<"\t", "a">>],
    [key |-> Key.eclasses, eq |-> TRUE, value |-> <<"a", "\t", "\t", "b">>],
    [key |-> Key.md5, eq |-> TRUE, value |-> <<>>]}

\* the values of the two mandatory lines
OddDescriptions == {<<"d">>, <<>>, <<"a", "=", " ", "b">>}

OddSlots == {<<"0">>, <<"0", "/">>, <<"0", "/", "a", "/", "b">>}

InitCacheOdd ==
    /\ op = "cache"
    /\ \E ls \in SeqsUpTo(CacheOddLines, MaxOddLines), d \in OddDescriptions, v \in OddSlots :
          rec = <<[key |-> Key.DESCRIPTION, eq |-> TRUE, value |-> d],
                  [key |-> Key.SLOT, eq |-> TRUE, value |-> v]>> \o ls
    /\ input = RecordText(rec)
    /\ Start

NextCacheOdd == CacheParse \/ CacheSerialize \/ CacheReparse

SpecCacheOdd == InitCacheOdd /\ [][NextCacheOdd]_vars

C29_Reparseable ==
    (op = "cache" /\ pc = "reparsed") =>
        /\ res2.ok
        /\ res2.val.eapi = res.val.eapi
        /\ res2.val.description = res.val.description
        /\ res2.val.slot = res.val.slot
        /\ res2.val.defined_phases = res.val.defined_phases

\* a record with a Token("") placeholder and an eclass without a name: its
\* serialization parses again, to a record that is not the same
C29_Witness ==
    /\ pc = "reparsed"
    /\ res.ok
    /\ res.val.restrict = <<RestrictToken(<<>>), RestrictToken(<<"b">>)>>
    /\ res.val.eclasses # <<>>
    /\ res.val.slot = [slot |-> <<"0">>, subslot |-> Some(<<"a", "/", "b">>)]
    /\ res2.ok
    /\ res2 # res

-----------------------------------------------------------------------------
(* The parsers step by step. The cursor of winnow (&mut &str) is the text    *)
(* still to read; a group being read is a frame on the stack, which stands   *)
(* for the recursion of parse_*_entries through the group parsers. One step  *)
(* is one iteration of repeat(0.., preceded(multispace0, entry)), or the     *)
(* closing of a group, or the end of the top-level parser. For a record,     *)
(* one step reads one line of input.lines().                                 *)

\* the frame of a group: "(" for a bare group, the operator character for an
\* operator group, "UseConditional", and "Top" for the top-level list
StepFrame(kind, flag, negated) ==
    [kind |-> kind, flag |-> flag, negated |-> negated, acc |-> <<>>]

StepFlagChars ==
    [license |-> LicenseFlagChars, required_use |-> RequiredUseFlagChars,
     restrict |-> RestrictFlagChars, src_uri |-> SrcUriFlagChars]

\* the characters on which dispatch! goes to an operator group
StepOperatorChars ==
    [license |-> {"|"}, required_use |-> {"|", "^", "?"}, restrict |-> {}, src_uri |-> {}]

StepError ==
    [license |-> "InvalidLicense", required_use |-> "InvalidRequiredUse",
     restrict |-> "InvalidRestrict", src_uri |-> "InvalidSrcUri"]

\* the group that opens at j without a '(' consumed: the recursion would start
\* where the entry started
open_group_Unconsumed(g, s, j) ==
    IF IsAt(s, j, "(") THEN POk(j, StepFrame("(", <<>>, FALSE)) ELSE PBt

\* the head of a group at j, up to and with its '(': the operator and
\* multispace0, or [!]flag? and multispace0, then '(' under cut_err; or the
\* '(' of a bare group
open_group(g, s, j) ==
    LET group(kind, f, negated, k) ==
            IF IsAt(s, k, "(") THEN POk(k + 1, StepFrame(kind, f, negated)) ELSE PCut
        cond(negated, f0, f1) ==
            IF f1 = f0 \/ ~IsAt(s, f1, "?") THEN PBt
            ELSE group("UseConditional", Slice(s, f0, f1), negated, multispace0(s, f1 + 1))
        flag(negated, f0) == cond(negated, f0, TakeWhileEnd(s, f0, StepFlagChars[g]))
    IN  IF j > Len(s) THEN PBt
        ELSE IF s[j] \in StepOperatorChars[g]
        THEN (IF IsAt(s, j + 1, s[j]) THEN group(s[j], <<>>, FALSE, multispace0(s, j + 2))
              ELSE PBt)
        ELSE IF s[j] = "(" THEN POk(j + 1, StepFrame("(", <<>>, FALSE))
        ELSE IF s[j] = "!" THEN flag(TRUE, j + 1)
        ELSE flag(FALSE, j)

\* the atom at j: the last alternative of the entry parser
atom_at(g, s, j) ==
    IF j > Len(s) \/ s[j] \in StepOperatorChars[g] \cup {"("} THEN PBt
    ELSE IF g = "license" THEN license_parse_license_name(s, j)
    ELSE IF g = "required_use" THEN required_use_parse_flag(s, j)
    ELSE IF g = "restrict" THEN restrict_parse_token(s, j)
    ELSE parse_uri_entry(s, j)

\* what a closed group gives to the list of the enclosing one
close_group(g, fr) ==
    IF fr.kind = "UseConditional" THEN
        (IF g = "license" THEN <<LicenseUseConditional(fr.flag, fr.negated, fr.acc)>>
         ELSE IF g = "required_use"
              THEN <<RequiredUseUseConditional(fr.flag, fr.negated, fr.acc)>>
         ELSE IF g = "restrict" THEN <<RestrictUseConditional(fr.flag, fr.negated, fr.acc)>>
         ELSE <<SrcUriUseConditional(fr.flag, fr.negated, fr.acc)>>)
    ELSE IF fr.kind = "(" THEN
        (IF g \in {"license", "required_use"} THEN fr.acc
         ELSE IF g = "restrict" THEN <<restrict_collapse_group(fr.acc)>>
         ELSE <<SrcUriGroup(fr.acc)>>)
    ELSE IF fr.kind = "|" THEN
        (IF g = "license" THEN <<LicenseAnyOf(fr.acc)>> ELSE <<RequiredUseAnyOf(fr.acc)>>)
    ELSE IF fr.kind = "^" THEN <<RequiredUseExactlyOne(fr.acc)>>
    ELSE <<RequiredUseAtMostOne(fr.acc)>>

\* the result of the top-level parser that stopped at k with the entries acc
finish_parse(g, s, k, acc) ==
    IF k # Len(s) + 1 THEN Err(StepError[g], <<>>)
    ELSE IF g = "license" THEN
        (IF Len(acc) = 0 THEN Ok(LicenseAll(<<>>))
         ELSE IF Len(acc) = 1 THEN Ok(acc[1]) ELSE Ok(LicenseAll(acc)))
    ELSE IF g = "required_use" THEN
        (IF Len(acc) = 0 THEN Ok(RequiredUseAll(<<>>))
         ELSE IF Len(acc) = 1 THEN Ok(acc[1]) ELSE Ok(RequiredUseAll(acc)))
    ELSE Ok(acc)

StepGrammars == {"license", "required_use", "restrict", "src_uri"}

\* the position of the cursor in the input
At == Len(input) - Len(text) + 1

\* the input from k on
Rest(k) == SubSeq(input, k, Len(input))

\* es added to the list of the innermost frame of stack
Extend(stack, es) ==
    [stack EXCEPT ![Len(stack)] = [@ EXCEPT !.acc = @ \o es]]

Moved(stack, k) ==
    /\ res2' = Ok(stack)
    /\ text' = Rest(k)
    /\ UNCHANGED <<op, input, rec, pc, res>>

Returned(r) ==
    /\ res' = r
    /\ pc' = "parsed"
    /\ UNCHANGED <<op, input, rec, text, res2>>

\* a group opens: its head and '(' are consumed, and its entries are read next
StepEnter ==
    /\ pc = "running" /\ op \in StepGrammars
    /\ \E j \in {multispace0(input, At)} : \E o \in {open_group(op, input, j)} :
          /\ o.st = "ok"
          /\ Moved(Append(res2.val, o.val), o.pos)

\* an atom is read into the list of the innermost group
StepAtom ==
    /\ pc = "running" /\ op \in StepGrammars
    /\ \E j \in {multispace0(input, At)} :
       \E o \in {open_group(op, input, j)}, a \in {atom_at(op, input, j)} :
          /\ o.st = "bt" /\ a.st = "ok"
          /\ Moved(Extend(res2.val, <<a.val>>), a.pos)

\* no entry follows inside a group and its ')' does: the group is closed
StepLeave ==
    /\ pc = "running" /\ op \in StepGrammars
    /\ Len(res2.val) > 1
    /\ \E j \in {multispace0(input, At)}, n \in {Len(res2.val)} :
       \E o \in {open_group(op, input, j)}, a \in {atom_at(op, input, j)} :
          /\ o.st = "bt" /\ a.st = "bt"
          /\ IsAt(input, j, ")")
          /\ Moved(Extend(SubSeq(res2.val, 1, n - 1), close_group(op, res2.val[n])), j + 1)

\* a Cut: a head without its '(', an atom cut short, or a group without its ')'
StepFail ==
    /\ pc = "running" /\ op \in StepGrammars
    /\ \E j \in {multispace0(input, At)} :
       \E o \in {open_group(op, input, j)}, a \in {atom_at(op, input, j)} :
          /\ \/ o.st = "cut"
             \/ o.st = "bt" /\ a.st = "cut"
             \/ o.st = "bt" /\ a.st = "bt" /\ Len(res2.val) > 1 /\ ~IsAt(input, j, ")")
          /\ Returned(Err(StepError[op], <<>>))

\* no entry follows at top level: multispace0, and Parser::parse wants the end
StepFinish ==
    /\ pc = "running" /\ op \in StepGrammars
    /\ Len(res2.val) = 1
    /\ \E j \in {multispace0(input, At)} :
       \E o \in {open_group(op, input, j)}, a \in {atom_at(op, input, j)} :
          /\ o.st = "bt" /\ a.st = "bt"
          /\ Returned(finish_parse(op, input, j, res2.val[1].acc))

MaxStepPieces == 3

StepPieces == {<<"a">>, <<"|", "|", "(">>, <<"(">>, <<")">>, <<" ">>, <<"a", "?">>,
               <<"a", "?", "(">>, <<")", ")">>}

MaxStepLines == 2

StepLines == {
    [key |-> Key.DESCRIPTION, eq |-> TRUE, value |-> <<"d">>],
    [key |-> Key.SLOT, eq |-> TRUE, value |-> <<"0">>],
    [key |-> Key.LICENSE, eq |-> TRUE, value |-> <<"|", "|", "(", "a", ")">>],
    [key |-> Key.RESTRICT, eq |-> TRUE, value |-> <<"(">>],
    [key |-> <<>>, eq |-> FALSE, value |-> <<>>]}

\* the records given to CacheEntry::parse, their lines as the loop sees them,
\* and what the loop has gathered after some of them
StepRecords == SeqsUpTo(StepLines, MaxStepLines)

StepLineTexts == {LineText(l) : l \in StepLines}

StepRaws == {RawFields(RecordText(r)) : r \in StepRecords}

\* the body of the loop and the fields after it, computed once for each of these
StepRead == [raw \in StepRaws, line \in StepLineTexts |-> RawLine(raw, line)]

StepBuilt == [raw \in StepRaws |-> CacheEntry_build(raw, FieldResults(raw))]

\* one iteration of the loop over input.lines()
StepLine ==
    /\ pc = "running" /\ op = "cache"
    /\ text # <<>>
    /\ \E n \in {FirstAt(text, 1, "\n")} :
          /\ res2' = Ok(StepRead[res2.val, Slice(text, 1, n)])
          /\ text' = SubSeq(text, n + 1, Len(text))
          /\ UNCHANGED <<op, input, rec, pc, res>>

\* the lines are read: the fields are validated and the record built
StepFields ==
    /\ pc = "running" /\ op = "cache"
    /\ text = <<>>
    /\ Returned(StepBuilt[res2.val])

\* the texts given to the grammar parsers
StepInputs == {Flatten(ps) : ps \in SeqsUpTo(StepPieces, MaxStepPieces)}

\* no parser is running yet
InitSteps ==
    /\ op = "none"
    /\ input = <<>>
    /\ rec = <<>>
    /\ Start

\* parse is called on a text: the cursor is at its start, and no group is open
StepCall ==
    /\ pc = "start"
    /\ \/ /\ op' \in StepGrammars
          /\ input' \in StepInputs
          /\ rec' = <<>>
          /\ res2' = Ok(<<StepFrame("Top", <<>>, FALSE)>>)
       \/ /\ op' = "cache"
          /\ rec' \in StepRecords
          /\ input' = RecordText(rec')
          /\ res2' = Ok(RawInit)
    /\ text' = input'
    /\ pc' = "running"
    /\ UNCHANGED res

NextSteps ==
    StepCall \/ StepEnter \/ StepAtom \/ StepLeave \/ StepFail \/ StepFinish \/ StepLine \/ StepFields

SpecSteps == InitSteps /\ [][NextSteps]_vars

\* a parser that is called runs: nothing but its own steps holds it up
LiveSteps == SpecSteps /\ WF_vars(NextSteps)

-----------------------------------------------------------------------------
(* C30. Termination: each of the four grammar parsers and CacheEntry::parse  *)
(* returns, with a result or an error, on every input: every step before     *)
(* the return consumes at least one character, a group is entered only with  *)
(* its '(' consumed, so that the groups open at any time are as many as the  *)
(* parentheses open in the text read so far, and the value returned is that  *)
(* of the parser.                                                            *)

\* the result of the parser of op on the whole input
ParsedWhole ==
    IF op = "license" THEN LicenseExpr_parse(input)
    ELSE IF op = "required_use" THEN RequiredUseExpr_parse(input)
    ELSE IF op = "restrict" THEN RestrictExpr_parse(input)
    ELSE IF op = "src_uri" THEN SrcUriEntry_parse(input)
    ELSE CacheEntry_parse(input)

C30_Termination ==
    /\ <>(pc = "parsed")
    /\ [][(pc = "running" /\ pc' = "running") => Len(text') < Len(text)]_vars
    /\ []((pc = "running" /\ op \in StepGrammars) =>
            /\ Len(res2.val) - 1 = Depth(input, At - 1)
            /\ Len(res2.val) - 1 <= BracketDepth(input))
    /\ [](pc = "parsed" => res = ParsedWhole)

\* a USE conditional in an any-of group: two groups were open, and the parser returned
C30_Witness ==
    /\ pc = "parsed"
    /\ op = "license"
    /\ input = <<"|", "|", "(", "a", "?", "(", ")", ")">>
    /\ text = <<>>
    /\ res = Ok(LicenseAnyOf(<<LicenseUseConditional(<<"a">>, FALSE, <<>>)>>))

=============================================================================
